---- MODULE Spec2Model ----
(***************************************************************************)
(* Station-Manager/logging: the lifecycle of logging.Service               *)
(* (Initialize / Close), the begin-operation protocol of the structured    *)
(* event builders (logEventBuilder, tracked events, With) and the          *)
(* quiescence counter (activeOps + WaitGroup) Close waits on.              *)
(*                                                                         *)
(* Goroutines are the elements of Procs.  Every atomic load/store, lock    *)
(* operation and WaitGroup call of the Go code is one step of the          *)
(* goroutine that executes it, so every interleaving the Go memory model   *)
(* allows for these synchronised accesses is a behaviour of the model.     *)
(***************************************************************************)
EXTENDS Integers, Sequences, FiniteSets, Bags, TLC

\* ------------------------------------------------------------------------
\* Bounds of the model
\* ------------------------------------------------------------------------

\* begin-operation calls that pass the first check, over a whole behaviour
MaxBegin == 2

\* tracked events dropped without a terminal call, over a whole behaviour
MaxAbandoned == 1

\* the goroutines: "main" owns the Service (Initialize, Close), the others
\* log through it
Procs == {"main", "g1", "g2"}

Producers == {"g1", "g2"}

Owners == {"main"}

\* nil pointers
NULL == "null"
NilLogger == [nil |-> TRUE]
NilConfig == [nil |-> TRUE]
NilEvent == [kind |-> "nil"]
NoRet == [op |-> "none", val |-> "none", path |-> "none"]

\* ------------------------------------------------------------------------
\* zerolog levels (github.com/rs/zerolog), as used by parseLevel and
\* logEventBuilder
\* ------------------------------------------------------------------------

LevelNum ==
  [trace |-> -1, debug |-> 0, info |-> 1, warn |-> 2, error |-> 3,
   fatal |-> 4, panic |-> 5, nolevel |-> 6, disabled |-> 7]

LevelNames == DOMAIN LevelNum

\* the level strings a configuration is drawn from: valid names, the empty
\* string (zerolog parses it as NoLevel) and a name zerolog rejects
LevelStrings == {"debug", "info", "warn", "error", "", "invalid_level"}

\* parseLevel: zerolog.ParseLevel; NoLevel and an error for an unknown name
parseLevel(str) ==
  IF str \in {"trace", "debug", "info", "warn", "error", "fatal", "panic", "disabled"}
    THEN [ok |-> TRUE, level |-> str]
  ELSE IF str = ""
    THEN [ok |-> TRUE, level |-> "nolevel"]
  ELSE [ok |-> FALSE, level |-> "nolevel"]

\* ------------------------------------------------------------------------
\* validateConfig.  A path is [abs, segs]: whether it starts with the
\* separator, and its components; the empty string is [FALSE, << >>].
\* ------------------------------------------------------------------------

EmptyPath == [abs |-> FALSE, segs |-> << >>]

RECURSIVE CleanSegs(_, _, _)
\* filepath.Clean on the components: "." is dropped, ".." removes the
\* component before it, is dropped at the root and is kept at the front of
\* a relative path
CleanSegs(rest, out, rooted) ==
  IF rest = << >> THEN out
  ELSE LET c == Head(rest) IN
    IF c = "." THEN CleanSegs(Tail(rest), out, rooted)
    ELSE IF c = ".."
      THEN IF Len(out) > 0 /\ out[Len(out)] # ".."
             THEN CleanSegs(Tail(rest), SubSeq(out, 1, Len(out) - 1), rooted)
           ELSE IF rooted
             THEN CleanSegs(Tail(rest), out, rooted)
           ELSE CleanSegs(Tail(rest), Append(out, ".."), rooted)
    ELSE CleanSegs(Tail(rest), Append(out, c), rooted)

Clean(path) == [abs |-> path.abs, segs |-> CleanSegs(path.segs, << >>, path.abs)]

\* strings.Contains(cleanPath, ".."): some component holds two dots in a row
ContainsDotDot(path) == \E i \in 1..Len(path.segs) : path.segs[i] \in {"..", "a..b"}

MaxSkipFrameCount == 20

\* validateConfig(cfg): "nil" or the error it returns
validateConfig(cfg, structOk) ==
  IF ~structOk THEN "errConfigInvalid"
  ELSE IF ~parseLevel(cfg.Level).ok THEN "errInvalidLevel"
  ELSE IF cfg.SkipFrameCount < 0 \/ cfg.SkipFrameCount > MaxSkipFrameCount
    THEN "errSkipFrameCount"
  ELSE IF cfg.RelLogFileDir = EmptyPath THEN "errRelDirEmpty"
  ELSE IF ContainsDotDot(Clean(cfg.RelLogFileDir)) THEN "errRelDirTraversal"
  ELSE IF Clean(cfg.RelLogFileDir).abs THEN "errRelDirAbsolute"
  ELSE "nil"

\* ------------------------------------------------------------------------
\* The world a Service is constructed in: what the injected ConfigService
\* returns and what the file system and os calls of Initialize answer.
\* ------------------------------------------------------------------------

GoodCfg ==
  [Level |-> "debug", SkipFrameCount |-> 0,
   RelLogFileDir |-> [abs |-> FALSE, segs |-> <<"logs">>],
   FileLogging |-> TRUE, ConsoleLogging |-> FALSE,
   ShutdownTimeoutMS |-> 20, ShutdownTimeoutWarning |-> TRUE]

GoodEnv ==
  [cfg |-> GoodCfg, cfgErr |-> FALSE, structOk |-> TRUE, workingDir |-> "tmp",
   exeDirErr |-> FALSE, pathExistsErr |-> FALSE, dirExists |-> FALSE,
   mkdirErr |-> FALSE, exeNameErr |-> FALSE]

\* the relative directories a configuration is drawn from
RelDirs ==
  { EmptyPath,
    [abs |-> FALSE, segs |-> <<".">>],
    [abs |-> FALSE, segs |-> <<"logs">>],
    [abs |-> TRUE,  segs |-> <<"not", "relative">>],
    [abs |-> FALSE, segs |-> <<"..", "up">>],
    [abs |-> FALSE, segs |-> <<"logs", "..", "..", "up">>],
    [abs |-> FALSE, segs |-> <<"logs", "..", "x">>],
    [abs |-> FALSE, segs |-> <<"a..b">>] }

SkipFrameCounts == {-1, 0, 3, 21}

\* configurations and environments of the initialization specification:
\* GoodEnv with one aspect changed
InitEnvs ==
  {GoodEnv}
  \cup {[GoodEnv EXCEPT !.cfg.Level = l] : l \in LevelStrings}
  \cup {[GoodEnv EXCEPT !.cfg.RelLogFileDir = d] : d \in RelDirs}
  \cup {[GoodEnv EXCEPT !.cfg.SkipFrameCount = n] : n \in SkipFrameCounts}
  \cup {[GoodEnv EXCEPT !.cfg.FileLogging = f, !.cfg.ConsoleLogging = c] :
          f \in BOOLEAN, c \in BOOLEAN}
  \cup {[GoodEnv EXCEPT !.cfgErr = TRUE], [GoodEnv EXCEPT !.structOk = FALSE],
        [GoodEnv EXCEPT !.workingDir = ""],
        [GoodEnv EXCEPT !.workingDir = "", !.exeDirErr = TRUE],
        [GoodEnv EXCEPT !.pathExistsErr = TRUE],
        [GoodEnv EXCEPT !.dirExists = TRUE],
        [GoodEnv EXCEPT !.mkdirErr = TRUE],
        [GoodEnv EXCEPT !.exeNameErr = TRUE]}

\* configurations of the lifecycle specification: file or console sink,
\* warning on or off, a threshold below and above Warn, the default timeout,
\* and one configuration validateConfig rejects
LifeEnvs ==
  { GoodEnv,
    [GoodEnv EXCEPT !.cfg.ShutdownTimeoutWarning = FALSE, !.cfg.ShutdownTimeoutMS = 0,
                    !.cfg.FileLogging = FALSE, !.cfg.ConsoleLogging = TRUE,
                    !.cfg.Level = "info"],
    [GoodEnv EXCEPT !.cfg.Level = "error"],
    [GoodEnv EXCEPT !.cfg.Level = "invalid_level"] }

\* ------------------------------------------------------------------------
\* The state
\* ------------------------------------------------------------------------

VARIABLES
  env,            \* the world (see above); fixed over a behaviour
  configService,  \* Service.ConfigService is set (injected)
  loggingConfig,  \* Service.LoggingConfig: NilConfig or the configuration read
  workingDir,     \* Service.WorkingDir ("" when unset)
  fileWriter,     \* Service.fileWriter: NULL or "fw", the lumberjack writer
  logger,         \* Service.logger: NilLogger or the published logger
  isInitialized,  \* Service.isInitialized
  initOnce,       \* Service.initOnce: "fresh", "running" or "done"
  initErr,        \* Service.initErr
  muReaders,      \* Service.mu: goroutines holding the read lock
  muWriter,       \* Service.mu: NULL or the goroutine holding the write lock
  muPending,      \* Service.mu: NULL or the goroutine whose Lock waits for the readers
  activeOps,      \* Service.activeOps
  wgCount,        \* Service.wg: its counter
  wgWaiters,      \* Service.wg: the helper goroutines blocked in Wait
  pc,             \* pc[g]: where goroutine g stands
  loc,            \* loc[g]: the locals of the call g is in
  ev,             \* ev[g]: the LogEvent g holds: NilEvent or [kind, lg, level]
  ret,            \* ret[g]: what g's last Initialize, Close or With call returned
  helper,         \* helper[g]: the goroutine Close spawned in g's call
  doneCh,         \* doneCh[g]: Close's done channel is closed
  timer,          \* timer[g]: Close's timer: "off", "running" or "fired"
  sink,           \* the file sink: [open, closeCalls]
  records,        \* the bag of the records written so far
  hist            \* counters and flags recorded for the properties

vars == <<env, configService, loggingConfig, workingDir, fileWriter, logger,
          isInitialized, initOnce, initErr, muReaders, muWriter, muPending, activeOps,
          wgCount, wgWaiters, pc, loc, ev, ret, helper, doneCh, timer, sink,
          records, hist>>

svcFields == <<loggingConfig, workingDir, fileWriter, logger, isInitialized,
               initOnce, initErr>>
muVars    == <<muReaders, muWriter, muPending>>
cntVars   == <<activeOps, wgCount, wgWaiters>>
closeVars == <<helper, doneCh, timer>>

NoLoc == [level |-> "nolevel", lg |-> NilLogger, captured |-> NilLogger, timedOut |-> FALSE,
          warn |-> FALSE, timeoutMS |-> 0, ops |-> 0, fw |-> NULL]

InitHist ==
  [bodyRuns |-> 0, published |-> 0, cfgReads |-> 0, fwCreated |-> 0,
   mkdirs |-> 0, first |-> "none", begun |-> 0, tracked |-> 0, undone |-> 0,
   abandoned |-> 0, flips |-> 0, firedEarly |-> FALSE]

InitWith(envs, injected) ==
  /\ env \in envs
  /\ configService \in injected
  /\ loggingConfig = NilConfig
  /\ workingDir = env.workingDir
  /\ fileWriter = NULL
  /\ logger = NilLogger
  /\ isInitialized = FALSE
  /\ initOnce = "fresh"
  /\ initErr = "nil"
  /\ muReaders = {}
  /\ muWriter = NULL
  /\ muPending = NULL
  /\ activeOps = 0
  /\ wgCount = 0
  /\ wgWaiters = {}
  /\ pc = [g \in Procs |-> "idle"]
  /\ loc = [g \in Procs |-> NoLoc]
  /\ ev = [g \in Procs |-> NilEvent]
  /\ ret = [g \in Procs |-> NoRet]
  /\ helper = [g \in Procs |-> "none"]
  /\ doneCh = [g \in Procs |-> FALSE]
  /\ timer = [g \in Procs |-> "off"]
  /\ sink = [open |-> FALSE, closeCalls |-> 0]
  /\ records = EmptyBag
  /\ hist = InitHist

\* ------------------------------------------------------------------------
\* Service.Initialize
\* ------------------------------------------------------------------------

\* initializeWriters: both sinks disabled enables the file sink; the file
\* sink creates the lumberjack writer
initializeWriters(cfg) ==
  LET file == cfg.FileLogging \/ (~cfg.ConsoleLogging /\ ~cfg.FileLogging)
  IN  [cfg |-> [cfg EXCEPT !.FileLogging = file],
       fw  |-> IF file THEN "fw" ELSE NULL]

\* the function Initialize hands to initOnce.Do, up to the point where it
\* publishes the logger: the values it leaves in the Service's fields, the
\* error it stores in initErr, and the logger it built (nil on failure)
InitBody(e, wd) ==
  LET fail(err, lc, w, fw, mk) ==
        [err |-> err, lc |-> lc, wd |-> w, fw |-> fw, mkdir |-> mk, lg |-> NilLogger]
      verr == validateConfig(e.cfg, e.structOk)
      w2   == IF wd = "" THEN "exeDir" ELSE wd
      mk   == ~e.dirExists
      iw   == initializeWriters(e.cfg)
      lvl  == parseLevel(iw.cfg.Level)
  IN  IF e.cfgErr THEN fail("errLoggingConfig", NilConfig, wd, NULL, FALSE)
      ELSE IF verr # "nil" THEN fail(verr, NilConfig, wd, NULL, FALSE)
      ELSE IF wd = "" /\ e.exeDirErr THEN fail("errExeDir", e.cfg, wd, NULL, FALSE)
      ELSE IF e.pathExistsErr THEN fail("errPathExists", e.cfg, w2, NULL, FALSE)
      ELSE IF mk /\ e.mkdirErr THEN fail("errMkdirAll", e.cfg, w2, NULL, FALSE)
      ELSE IF e.exeNameErr THEN fail("errExecName", e.cfg, w2, NULL, mk)
      ELSE IF ~lvl.ok THEN fail("errParseLevel", iw.cfg, w2, iw.fw, mk)
      ELSE [err |-> "nil", lc |-> iw.cfg, wd |-> w2, fw |-> iw.fw, mkdir |-> mk,
            lg |-> [id |-> 1, level |-> lvl.level,
                    toFile |-> iw.cfg.FileLogging,
                    toConsole |-> iw.cfg.ConsoleLogging]]

\* Initialize on a nil *Service
InitializeNil(g) ==
  /\ pc[g] = "idle"
  /\ ret' = [ret EXCEPT ![g] = [op |-> "Initialize", val |-> "errNilService",
                              path |-> "nilReceiver"]]
  /\ UNCHANGED hist
  /\ UNCHANGED <<env, configService, svcFields, muVars, cntVars, pc, loc, ev,
                 closeVars, sink, records>>

\* Initialize, up to initOnce.Do
InitializeCall(g) ==
  /\ pc[g] = "idle"
  /\ IF ~configService
       THEN /\ ret' = [ret EXCEPT ![g] = [op |-> "Initialize", val |-> "errAppCfgNotSet",
                                        path |-> "noConfigService"]]
            /\ hist' = [hist EXCEPT !.first = IF @ = "none" THEN "errAppCfgNotSet" ELSE @]
            /\ pc' = pc
       ELSE /\ pc' = [pc EXCEPT ![g] = "init_once"]
            /\ ret' = [ret EXCEPT ![g] = NoRet]
            /\ hist' = hist
  /\ UNCHANGED <<env, configService, svcFields, muVars, cntVars, loc, ev,
                 closeVars, sink, records>>

\* InitializeOnce without the one-shot guard: every caller runs the function
InitializeOnceUnguarded(g) ==
  /\ pc[g] = "init_once"
  /\ initOnce' = "running"
  /\ pc' = [pc EXCEPT ![g] = "init_body"]
  /\ UNCHANGED <<env, configService, loggingConfig, workingDir, fileWriter, logger,
                 isInitialized, initErr, muVars, cntVars, loc, ev, ret,
                 closeVars, sink, records, hist>>

\* InitializeOnce that runs the function again after a failed attempt
InitializeOnceRetry(g) ==
  /\ pc[g] = "init_once"
  /\ initOnce # "running"
  /\ IF initOnce = "fresh" \/ initErr # "nil"
       THEN /\ initOnce' = "running"
            /\ pc' = [pc EXCEPT ![g] = "init_body"]
       ELSE /\ initOnce' = initOnce
            /\ pc' = [pc EXCEPT ![g] = "init_ret"]
  /\ UNCHANGED <<env, configService, loggingConfig, workingDir, fileWriter, logger,
                 isInitialized, initErr, muVars, cntVars, loc, ev, ret,
                 closeVars, sink, records, hist>>

\* initOnce.Do: the first caller runs the function, a later one waits until
\* it has returned and skips it
InitializeOnce(g) ==
  /\ pc[g] = "init_once"
  /\ initOnce # "running"
  /\ IF initOnce = "fresh"
       THEN /\ initOnce' = "running"
            /\ pc' = [pc EXCEPT ![g] = "init_body"]
       ELSE /\ initOnce' = initOnce
            /\ pc' = [pc EXCEPT ![g] = "init_ret"]
  /\ UNCHANGED <<env, configService, loggingConfig, workingDir, fileWriter, logger,
                 isInitialized, initErr, muVars, cntVars, loc, ev, ret,
                 closeVars, sink, records, hist>>

\* InitializeBody that goes on to publish after a failed step
InitializeBodyNoReturn(g) ==
  /\ pc[g] = "init_body"
  /\ LET b == InitBody(env, workingDir) IN
       /\ loggingConfig' = b.lc
       /\ workingDir' = b.wd
       /\ fileWriter' = b.fw
       /\ initErr' = b.err
       /\ loc' = [loc EXCEPT ![g].lg = b.lg]
       /\ hist' = [hist EXCEPT !.bodyRuns = @ + 1,
                               !.cfgReads = @ + 1,
                               !.fwCreated = @ + (IF b.fw # NULL THEN 1 ELSE 0),
                               !.mkdirs = @ + (IF b.mkdir THEN 1 ELSE 0)]
       /\ pc' = [pc EXCEPT ![g] = "init_store"]
       /\ initOnce' = initOnce
  /\ UNCHANGED <<env, configService, logger, isInitialized, muVars, cntVars, ev,
                 ret, closeVars, sink, records>>

\* the function's body up to the logger it builds (service.go 44-101)
InitializeBody(g) ==
  /\ pc[g] = "init_body"
  /\ LET b == InitBody(env, workingDir) IN
       /\ loggingConfig' = b.lc
       /\ workingDir' = b.wd
       /\ fileWriter' = b.fw
       /\ initErr' = b.err
       /\ loc' = [loc EXCEPT ![g].lg = b.lg]
       /\ hist' = [hist EXCEPT !.bodyRuns = @ + 1,
                               !.cfgReads = @ + 1,
                               !.fwCreated = @ + (IF b.fw # NULL THEN 1 ELSE 0),
                               !.mkdirs = @ + (IF b.mkdir THEN 1 ELSE 0)]
       /\ IF b.err = "nil"
            THEN /\ pc' = [pc EXCEPT ![g] = "init_store"]
                 /\ initOnce' = initOnce
            ELSE /\ pc' = [pc EXCEPT ![g] = "init_ret"]
                 /\ initOnce' = "done"
  /\ UNCHANGED <<env, configService, logger, isInitialized, muVars, cntVars, ev,
                 ret, closeVars, sink, records>>

\* s.logger.Store(&logger)
InitializeStoreLogger(g) ==
  /\ pc[g] = "init_store"
  /\ logger' = loc[g].lg
  /\ hist' = [hist EXCEPT !.published = @ + 1]
  /\ pc' = [pc EXCEPT ![g] = "init_flag"]
  /\ UNCHANGED <<env, configService, loggingConfig, workingDir, fileWriter,
                 isInitialized, initOnce, initErr, muVars, cntVars, loc, ev, ret,
                 closeVars, sink, records>>

\* s.isInitialized.Store(true), and the function returns
InitializeStoreFlag(g) ==
  /\ pc[g] = "init_flag"
  /\ isInitialized' = TRUE
  /\ initOnce' = "done"
  /\ pc' = [pc EXCEPT ![g] = "init_ret"]
  /\ UNCHANGED <<env, configService, loggingConfig, workingDir, fileWriter, logger,
                 initErr, muVars, cntVars, loc, ev, ret, closeVars, sink, records,
                 hist>>

\* return s.initErr
InitializeReturn(g) ==
  /\ pc[g] = "init_ret"
  /\ ret' = [ret EXCEPT ![g] = [op |-> "Initialize", val |-> initErr, path |-> "once"]]
  /\ hist' = [hist EXCEPT !.first = IF @ = "none" THEN initErr ELSE @]
  /\ pc' = [pc EXCEPT ![g] = "idle"]
  /\ loc' = [loc EXCEPT ![g] = NoLoc]
  /\ UNCHANGED <<env, configService, svcFields, muVars, cntVars, ev, closeVars,
                 sink, records>>

\* the owner of the Service sets ConfigService (dependency injection) while
\* no Initialize call is running
InjectConfigService ==
  /\ ~configService
  /\ \A g \in Procs : pc[g] = "idle"
  /\ configService' = TRUE
  /\ UNCHANGED <<env, svcFields, muVars, cntVars, pc, loc, ev, ret, closeVars,
                 sink, records, hist>>

\* ------------------------------------------------------------------------
\* Service.mu (sync.RWMutex) and Service.wg (sync.WaitGroup)
\* ------------------------------------------------------------------------

\* RLock returns: no writer holds the lock or waits for it
CanRLock == muWriter = NULL /\ muPending = NULL

\* Lock announces itself: writers exclude each other
CanAnnounce == muWriter = NULL /\ muPending = NULL

\* wg.Done(): the counter drops; at zero every goroutine blocked in Wait
\* is released
WgDone ==
  /\ wgCount' = wgCount - 1
  /\ IF wgCount - 1 = 0
       THEN /\ wgWaiters' = {}
            /\ helper' = [g \in Procs |->
                            IF g \in wgWaiters THEN "returned" ELSE helper[g]]
       ELSE UNCHANGED <<wgWaiters, helper>>

\* ------------------------------------------------------------------------
\* Events: newLogEvent, newTrackedLogEvent
\* ------------------------------------------------------------------------

\* the levels of the begin-operation calls of the model (FatalWith and
\* PanicWith end the process or the goroutine in their terminal call)
BeginLevels == {"debug", "error"}

\* newLogEvent(nil): the no-op builder
NoopEvent == [kind |-> "noop", lg |-> NilLogger, level |-> "nolevel"]

\* newTrackedLogEvent(e, s): a no-op builder for a nil event or a nil
\* service, a tracked event otherwise; the counter is left as it is
newTrackedLogEvent(eventNil, serviceNil, lg, level) ==
  IF eventNil \/ serviceNil THEN NoopEvent
  ELSE [kind |-> "tracked", lg |-> lg, level |-> level]

\* logger.GetLevel() > level: the logger's threshold filters the level out
LevelFiltered(lg, level) == LevelNum[lg.level] > LevelNum[level]

Tracked(g) == ev[g].kind = "tracked"

\* the tracked events whose terminal call has not returned: those still
\* held and those dropped
Unterminated == Cardinality({g \in Procs : Tracked(g)}) + hist.abandoned

\* ------------------------------------------------------------------------
\* logEventBuilder: TraceWith .. PanicWith
\* ------------------------------------------------------------------------

\* a begin-operation on a nil *Service
BeginNil(g) ==
  /\ pc[g] = "idle" /\ ev[g] = NilEvent
  /\ ev' = [ev EXCEPT ![g] = NoopEvent]
  /\ UNCHANGED ret
  /\ UNCHANGED hist
  /\ UNCHANGED <<env, configService, svcFields, muVars, cntVars, pc, loc,
                 closeVars, sink, records>>

\* BeginCall without the first check of isInitialized
BeginCallNoCheck(g, level) ==
  /\ pc[g] = "idle" /\ ev[g] = NilEvent
  /\ hist.begun < MaxBegin
  /\ hist' = [hist EXCEPT !.begun = @ + 1]
  /\ pc' = [pc EXCEPT ![g] = "b_inc"]
  /\ loc' = [loc EXCEPT ![g] = [NoLoc EXCEPT !.level = level]]
  /\ UNCHANGED <<ev, ret>>
  /\ UNCHANGED <<env, configService, svcFields, muVars, cntVars, closeVars, sink,
                 records>>

\* helper.go 83-88: the first check of isInitialized
BeginCall(g, level) ==
  /\ pc[g] = "idle" /\ ev[g] = NilEvent
  /\ IF ~isInitialized \/ level = "nolevel"
       THEN /\ ev' = [ev EXCEPT ![g] = NoopEvent]
            /\ UNCHANGED ret
            /\ UNCHANGED <<pc, loc, hist>>
       ELSE /\ hist.begun < MaxBegin
            /\ hist' = [hist EXCEPT !.begun = @ + 1]
            /\ pc' = [pc EXCEPT ![g] = "b_inc"]
            /\ loc' = [loc EXCEPT ![g] = [NoLoc EXCEPT !.level = level]]
            /\ UNCHANGED <<ev, ret>>
  /\ UNCHANGED <<env, configService, svcFields, muVars, cntVars, closeVars, sink,
                 records>>

\* helper.go 91: s.activeOps.Add(1)
BeginIncrement(g) ==
  /\ pc[g] = "b_inc"
  /\ activeOps' = activeOps + 1
  /\ pc' = [pc EXCEPT ![g] = "b_wgadd"]
  /\ UNCHANGED <<env, configService, svcFields, muVars, wgCount, wgWaiters, loc,
                 ev, ret, closeVars, sink, records, hist>>

\* helper.go 92: s.wg.Add(1)
BeginWgAdd(g) ==
  /\ pc[g] = "b_wgadd"
  /\ wgCount' = wgCount + 1
  /\ pc' = [pc EXCEPT ![g] = "b_rlock"]
  /\ UNCHANGED <<env, configService, svcFields, muVars, activeOps, wgWaiters, loc,
                 ev, ret, closeVars, sink, records, hist>>

\* helper.go 95: s.mu.RLock()
BeginRLock(g) ==
  /\ pc[g] = "b_rlock"
  /\ CanRLock
  /\ muReaders' = muReaders \cup {g}
  /\ pc' = [pc EXCEPT ![g] = "b_recheck"]
  /\ UNCHANGED <<env, configService, svcFields, muWriter, muPending, cntVars, loc,
                 ev, ret, closeVars, sink, records, hist>>

\* helper.go 98: the re-check of isInitialized under the read lock
BeginRecheck(g) ==
  /\ pc[g] = "b_recheck"
  /\ pc' = [pc EXCEPT ![g] = IF isInitialized THEN "b_load" ELSE "b_undo"]
  /\ UNCHANGED <<env, configService, svcFields, muVars, cntVars, loc, ev, ret,
                 closeVars, sink, records, hist>>

\* BeginLoad with the level filter of helper.go 113-118 left out
BeginLoadNoLevelFilter(g) ==
  /\ pc[g] = "b_load"
  /\ IF logger = NilLogger
       THEN /\ pc' = [pc EXCEPT ![g] = "b_undo"]
            /\ loc' = loc
       ELSE /\ pc' = [pc EXCEPT ![g] = "b_unlock"]
            /\ loc' = [loc EXCEPT ![g].lg = logger]
  /\ UNCHANGED <<env, configService, svcFields, muVars, cntVars, ev, ret,
                 closeVars, sink, records, hist>>

\* helper.go 105-141: load the logger; nil or a stricter threshold undoes the
\* increment, otherwise the event is created from this snapshot
BeginLoad(g) ==
  /\ pc[g] = "b_load"
  /\ IF logger = NilLogger \/ LevelFiltered(logger, loc[g].level)
       THEN /\ pc' = [pc EXCEPT ![g] = "b_undo"]
            /\ loc' = loc
       ELSE /\ pc' = [pc EXCEPT ![g] = "b_unlock"]
            /\ loc' = [loc EXCEPT ![g].lg = logger]
  /\ UNCHANGED <<env, configService, svcFields, muVars, cntVars, ev, ret,
                 closeVars, sink, records, hist>>

\* helper.go 143-146: s.mu.RUnlock() and return newTrackedLogEvent(event, s)
BeginReturnTracked(g) ==
  /\ pc[g] = "b_unlock"
  /\ muReaders' = muReaders \ {g}
  /\ ev' = [ev EXCEPT ![g] = newTrackedLogEvent(FALSE, FALSE, loc[g].lg, loc[g].level)]
  /\ UNCHANGED ret
  /\ hist' = [hist EXCEPT !.tracked = @ + 1]
  /\ pc' = [pc EXCEPT ![g] = "idle"]
  /\ loc' = [loc EXCEPT ![g] = NoLoc]
  /\ UNCHANGED <<env, configService, svcFields, muWriter, muPending, cntVars,
                 closeVars, sink, records>>

\* BeginUndoUnlock with the RUnlock of the undo paths left out
BeginUndoUnlockSkipped(g) ==
  /\ pc[g] = "b_undo"
  /\ pc' = [pc EXCEPT ![g] = "b_undo_dec"]
  /\ UNCHANGED <<env, configService, svcFields, muVars, cntVars, loc,
                 ev, ret, closeVars, sink, records, hist>>

\* the undo paths (helper.go 99-102, 107-110, 114-117): s.mu.RUnlock()
BeginUndoUnlock(g) ==
  /\ pc[g] = "b_undo"
  /\ muReaders' = muReaders \ {g}
  /\ pc' = [pc EXCEPT ![g] = "b_undo_dec"]
  /\ UNCHANGED <<env, configService, svcFields, muWriter, muPending, cntVars, loc,
                 ev, ret, closeVars, sink, records, hist>>

\* BeginUndoDecrement with the decrement of activeOps left out
BeginUndoDecrementSkipped(g) ==
  /\ pc[g] = "b_undo_dec"
  /\ pc' = [pc EXCEPT ![g] = "b_undo_done"]
  /\ UNCHANGED <<env, configService, svcFields, muVars, cntVars, loc, ev, ret,
                 closeVars, sink, records, hist>>

\* the undo paths: s.activeOps.Add(-1)
BeginUndoDecrement(g) ==
  /\ pc[g] = "b_undo_dec"
  /\ activeOps' = activeOps - 1
  /\ pc' = [pc EXCEPT ![g] = "b_undo_done"]
  /\ UNCHANGED <<env, configService, svcFields, muVars, wgCount, wgWaiters, loc, ev,
                 ret, closeVars, sink, records, hist>>

\* the undo paths: s.wg.Done() and return newLogEvent(nil)
BeginUndoDone(g) ==
  /\ pc[g] = "b_undo_done"
  /\ WgDone
  /\ hist' = [hist EXCEPT !.undone = @ + 1]
  /\ ev' = [ev EXCEPT ![g] = NoopEvent]
  /\ UNCHANGED ret
  /\ pc' = [pc EXCEPT ![g] = "idle"]
  /\ loc' = [loc EXCEPT ![g] = NoLoc]
  /\ UNCHANGED <<env, configService, svcFields, muVars, activeOps, doneCh, timer,
                 sink, records>>

\* ------------------------------------------------------------------------
\* Terminal calls: Msg, Msgf, Send
\* ------------------------------------------------------------------------

\* the record an event writes through its logger snapshot; afterFlip marks
\* a record written after Close's flip, late one written after Close
\* released the file writer
EventRecord(e) ==
  [kind |-> "event", level |-> e.level, afterFlip |-> hist.flips > 0,
   late |-> sink.closeCalls > 0, ops |-> 0, timeout |-> 0]

\* a write through a logger: lumberjack opens the file on a write
SinkAfterWrite(lg) == IF lg.toFile THEN [sink EXCEPT !.open = TRUE] ELSE sink

\* logEvent.Msg on the no-op builder: e.event is nil, nothing happens
TerminalNoop(g) ==
  /\ pc[g] = "idle"
  /\ ev[g].kind = "noop"
  /\ ev' = [ev EXCEPT ![g] = NilEvent]
  /\ UNCHANGED ret
  /\ UNCHANGED <<env, configService, svcFields, muVars, cntVars, pc, loc,
                 closeVars, sink, records, hist>>

\* TerminalWrite with the write of the record left out
TerminalWriteSkipped(g) ==
  /\ pc[g] = "idle"
  /\ Tracked(g)
  /\ pc' = [pc EXCEPT ![g] = "t_dec"]
  /\ UNCHANGED <<env, configService, svcFields, muVars, cntVars, loc, ev, ret,
                 closeVars, sink, records, hist>>

\* trackedLogEvent.Msg: e.event.Msg(msg) writes the record
TerminalWrite(g) ==
  /\ pc[g] = "idle"
  /\ Tracked(g)
  /\ records' = records (+) SetToBag({EventRecord(ev[g])})
  /\ sink' = SinkAfterWrite(ev[g].lg)
  /\ pc' = [pc EXCEPT ![g] = "t_dec"]
  /\ UNCHANGED <<env, configService, svcFields, muVars, cntVars, loc, ev, ret,
                 closeVars, hist>>

\* TerminalDecrement as a second terminal call on the same event would add
\* to it: the counter is decremented twice for one increment
TerminalDecrementTwice(g) ==
  /\ pc[g] = "t_dec"
  /\ activeOps' = activeOps - 2
  /\ pc' = [pc EXCEPT ![g] = "t_done"]
  /\ UNCHANGED <<env, configService, svcFields, muVars, wgCount, wgWaiters, loc, ev,
                 ret, closeVars, sink, records, hist>>

\* the deferred function of the terminal call: e.service.activeOps.Add(-1)
TerminalDecrement(g) ==
  /\ pc[g] = "t_dec"
  /\ activeOps' = activeOps - 1
  /\ pc' = [pc EXCEPT ![g] = "t_done"]
  /\ UNCHANGED <<env, configService, svcFields, muVars, wgCount, wgWaiters, loc, ev,
                 ret, closeVars, sink, records, hist>>

\* the deferred function of the terminal call: e.service.wg.Done()
TerminalDone(g) ==
  /\ pc[g] = "t_done"
  /\ WgDone
  /\ ev' = [ev EXCEPT ![g] = NilEvent]
  /\ UNCHANGED ret
  /\ pc' = [pc EXCEPT ![g] = "idle"]
  /\ UNCHANGED <<env, configService, svcFields, muVars, activeOps, loc, doneCh,
                 timer, sink, records, hist>>

\* the caller drops a tracked event without a terminal call
Abandon(g) ==
  /\ pc[g] = "idle"
  /\ Tracked(g)
  /\ hist.abandoned < MaxAbandoned
  /\ ev' = [ev EXCEPT ![g] = NilEvent]
  /\ hist' = [hist EXCEPT !.abandoned = @ + 1]
  /\ UNCHANGED <<env, configService, svcFields, muVars, cntVars, pc, loc, ret,
                 closeVars, sink, records>>

\* ------------------------------------------------------------------------
\* Service.With
\* ------------------------------------------------------------------------

\* noopLogContext.Logger() is a noopLogger, logContext.Logger() a
\* contextLogger bound to the parent service
LoggerOf(ctx) == IF ctx = "noopLogContext" THEN "noopLogger" ELSE "contextLogger"

\* With on a nil *Service
WithNil(g) ==
  /\ pc[g] = "idle"
  /\ UNCHANGED hist
  /\ ret' = [ret EXCEPT ![g] = [op |-> "With", val |-> "noopLogContext", path |-> "nilReceiver"]]
  /\ UNCHANGED <<env, configService, svcFields, muVars, cntVars, pc, loc, ev,
                 closeVars, sink, records>>

\* service.go 237-239: the first check of isInitialized
WithCall(g) ==
  /\ pc[g] = "idle"
  /\ UNCHANGED hist
  /\ IF ~isInitialized
       THEN /\ ret' = [ret EXCEPT ![g] = [op |-> "With", val |-> "noopLogContext", path |-> "notInitialized"]]
            /\ pc' = pc
       ELSE /\ pc' = [pc EXCEPT ![g] = "w_rlock"]
            /\ ret' = [ret EXCEPT ![g] = NoRet]
  /\ UNCHANGED <<env, configService, svcFields, muVars, cntVars, loc, ev,
                 closeVars, sink, records>>

\* service.go 242: s.mu.RLock()
WithRLock(g) ==
  /\ pc[g] = "w_rlock"
  /\ CanRLock
  /\ muReaders' = muReaders \cup {g}
  /\ pc' = [pc EXCEPT ![g] = "w_recheck"]
  /\ UNCHANGED <<env, configService, svcFields, muWriter, muPending, cntVars, loc,
                 ev, ret, closeVars, sink, records, hist>>

\* service.go 246-248: the re-check under the read lock
WithRecheck(g) ==
  /\ pc[g] = "w_recheck"
  /\ IF isInitialized
       THEN /\ pc' = [pc EXCEPT ![g] = "w_load"]
            /\ loc' = loc
       ELSE /\ pc' = [pc EXCEPT ![g] = "w_unlock"]
            /\ loc' = [loc EXCEPT ![g].lg = NilLogger]
  /\ UNCHANGED <<env, configService, svcFields, muVars, cntVars, ev, ret,
                 closeVars, sink, records, hist>>

\* service.go 250-253: logger := s.logger.Load()
WithLoad(g) ==
  /\ pc[g] = "w_load"
  /\ loc' = [loc EXCEPT ![g].lg = logger]
  /\ pc' = [pc EXCEPT ![g] = "w_unlock"]
  /\ UNCHANGED <<env, configService, svcFields, muVars, cntVars, ev, ret,
                 closeVars, sink, records, hist>>

\* the deferred s.mu.RUnlock() and the return of the context, which wraps
\* the logger loaded (logContext.context) at nesting depth 1
WithReturn(g) ==
  /\ pc[g] = "w_unlock"
  /\ muReaders' = muReaders \ {g}
  /\ ret' = [ret EXCEPT ![g] =
               [op |-> "With",
                val |-> IF loc[g].lg = NilLogger THEN "noopLogContext" ELSE "logContext",
                path |-> "locked", lg |-> loc[g].lg, depth |-> 1]]
  /\ pc' = [pc EXCEPT ![g] = "idle"]
  /\ loc' = [loc EXCEPT ![g] = NoLoc]
  /\ UNCHANGED <<env, configService, svcFields, muWriter, muPending, cntVars, ev,
                 closeVars, sink, records, hist>>

\* ------------------------------------------------------------------------
\* Service.Close
\* ------------------------------------------------------------------------

DefaultTimeoutMS == 100

\* Close on a nil *Service
CloseNil(g) ==
  /\ pc[g] = "idle"
  /\ UNCHANGED hist
  /\ ret' = [ret EXCEPT ![g] = [op |-> "Close", val |-> "nil", path |-> "nilReceiver"]]
  /\ UNCHANGED <<env, configService, svcFields, muVars, cntVars, pc, loc, ev,
                 closeVars, sink, records>>

\* CloseCall without the first check of isInitialized
CloseCallNoCheck(g) ==
  /\ pc[g] = "idle"
  /\ pc' = [pc EXCEPT ![g] = "c_lock"]
  /\ ret' = [ret EXCEPT ![g] = NoRet]
  /\ UNCHANGED <<env, configService, svcFields, muVars, cntVars, loc, ev,
                 closeVars, sink, records, hist>>

\* service.go 117-119: the first check of isInitialized
CloseCall(g) ==
  /\ pc[g] = "idle"
  /\ UNCHANGED hist
  /\ IF ~isInitialized
       THEN /\ ret' = [ret EXCEPT ![g] = [op |-> "Close", val |-> "nil",
                                        path |-> "notInitialized"]]
            /\ pc' = pc
       ELSE /\ pc' = [pc EXCEPT ![g] = "c_lock"]
            /\ ret' = [ret EXCEPT ![g] = NoRet]
  /\ UNCHANGED <<env, configService, svcFields, muVars, cntVars, loc, ev,
                 closeVars, sink, records>>

\* service.go 122: s.mu.Lock() announces the writer, which stops new readers
CloseLockAnnounce(g) ==
  /\ pc[g] = "c_lock"
  /\ CanAnnounce
  /\ muPending' = g
  /\ pc' = [pc EXCEPT ![g] = "c_lock_acq"]
  /\ UNCHANGED <<env, configService, svcFields, muReaders, muWriter, cntVars, loc,
                 ev, ret, closeVars, sink, records, hist>>

\* CloseLockAcquire with a Lock that does not wait for the readers
CloseLockAcquireEarly(g) ==
  /\ pc[g] = "c_lock_acq"
  /\ muWriter' = g
  /\ muPending' = NULL
  /\ pc' = [pc EXCEPT ![g] = "c_recheck"]
  /\ UNCHANGED <<env, configService, svcFields, muReaders, cntVars, loc, ev, ret,
                 closeVars, sink, records, hist>>

\* service.go 122: s.mu.Lock() returns once the readers have left
CloseLockAcquire(g) ==
  /\ pc[g] = "c_lock_acq"
  /\ muReaders = {}
  /\ muWriter' = g
  /\ muPending' = NULL
  /\ pc' = [pc EXCEPT ![g] = "c_recheck"]
  /\ UNCHANGED <<env, configService, svcFields, muReaders, cntVars, loc, ev, ret,
                 closeVars, sink, records, hist>>

\* CloseRecheck with the re-check left out: every Close that passed the
\* first check goes on to flip, wait and release
CloseRecheckSkipped(g) ==
  /\ pc[g] = "c_recheck"
  /\ pc' = [pc EXCEPT ![g] = "c_capture"]
  /\ UNCHANGED <<env, configService, svcFields, muVars, cntVars, loc, ev, ret,
                 closeVars, sink, records, hist>>

\* service.go 125-128: the re-check under the lock
CloseRecheck(g) ==
  /\ pc[g] = "c_recheck"
  /\ pc' = [pc EXCEPT ![g] = IF isInitialized THEN "c_capture" ELSE "c_unlock_ret"]
  /\ UNCHANGED <<env, configService, svcFields, muVars, cntVars, loc, ev, ret,
                 closeVars, sink, records, hist>>

\* service.go 126-127: s.mu.Unlock(); return nil
CloseUnlockReturn(g) ==
  /\ pc[g] = "c_unlock_ret"
  /\ muWriter' = NULL
  /\ ret' = [ret EXCEPT ![g] = [op |-> "Close", val |-> "nil", path |-> "recheck"]]
  /\ pc' = [pc EXCEPT ![g] = "idle"]
  /\ UNCHANGED <<env, configService, svcFields, muReaders, muPending, cntVars, loc,
                 ev, closeVars, sink, records, hist>>

\* service.go 131: logger := s.logger.Load()
CloseCapture(g) ==
  /\ pc[g] = "c_capture"
  /\ loc' = [loc EXCEPT ![g].captured = logger]
  /\ pc' = [pc EXCEPT ![g] = "c_flag"]
  /\ UNCHANGED <<env, configService, svcFields, muVars, cntVars, ev, ret,
                 closeVars, sink, records, hist>>

\* CloseFlip with the store of false left out: the logger is cleared while
\* the flag still reads true
CloseFlipSkipped(g) ==
  /\ pc[g] = "c_flag"
  /\ pc' = [pc EXCEPT ![g] = "c_clear"]
  /\ UNCHANGED <<env, configService, svcFields, muVars, cntVars, loc, ev, ret,
                 closeVars, sink, records, hist>>

\* service.go 134: s.isInitialized.Store(false), the flip to Closed
CloseFlip(g) ==
  /\ pc[g] = "c_flag"
  /\ isInitialized' = FALSE
  /\ hist' = [hist EXCEPT !.flips = @ + 1]
  /\ pc' = [pc EXCEPT ![g] = "c_clear"]
  /\ UNCHANGED <<env, configService, loggingConfig, workingDir, fileWriter, logger,
                 initOnce, initErr, muVars, cntVars, loc, ev, ret, closeVars, sink,
                 records>>

\* service.go 135: s.logger.Store(nil)
CloseClearLogger(g) ==
  /\ pc[g] = "c_clear"
  /\ logger' = NilLogger
  /\ pc' = [pc EXCEPT ![g] = "c_unlock"]
  /\ UNCHANGED <<env, configService, loggingConfig, workingDir, fileWriter,
                 isInitialized, initOnce, initErr, muVars, cntVars, loc, ev, ret,
                 closeVars, sink, records, hist>>

\* CloseUnlock with the Unlock left out: Close goes on to wait for the
\* counter with the write lock held
CloseUnlockSkipped(g) ==
  /\ pc[g] = "c_unlock"
  /\ pc' = [pc EXCEPT ![g] = "c_wait"]
  /\ UNCHANGED <<env, configService, svcFields, muVars, cntVars, loc, ev, ret,
                 closeVars, sink, records, hist>>

\* service.go 136: s.mu.Unlock()
CloseUnlock(g) ==
  /\ pc[g] = "c_unlock"
  /\ muWriter' = NULL
  /\ pc' = [pc EXCEPT ![g] = "c_wait"]
  /\ UNCHANGED <<env, configService, svcFields, muReaders, muPending, cntVars, loc,
                 ev, ret, closeVars, sink, records, hist>>

\* service.go 139-146: the timeout and the warning flag of the configuration
ShutdownTimeout(lc) ==
  IF lc # NilConfig /\ lc.ShutdownTimeoutMS > 0 THEN lc.ShutdownTimeoutMS
  ELSE DefaultTimeoutMS

WarnOnTimeout(lc) == lc # NilConfig /\ lc.ShutdownTimeoutWarning

\* service.go 139-155: read the configuration, start the goroutine that
\* waits on the WaitGroup, start the timer
CloseStartWait(g) ==
  /\ pc[g] = "c_wait"
  /\ loc' = [loc EXCEPT ![g].timeoutMS = ShutdownTimeout(loggingConfig),
                        ![g].warn = WarnOnTimeout(loggingConfig)]
  /\ helper' = [helper EXCEPT ![g] = "started"]
  /\ doneCh' = [doneCh EXCEPT ![g] = FALSE]
  /\ timer' = [timer EXCEPT ![g] = "running"]
  /\ pc' = [pc EXCEPT ![g] = "c_select"]
  /\ UNCHANGED <<env, configService, svcFields, muVars, cntVars, ev, ret, sink,
                 records, hist>>

\* HelperWait with a Wait that never blocks
HelperWaitNoBlock(g) ==
  /\ helper[g] = "started"
  /\ helper' = [helper EXCEPT ![g] = "returned"]
  /\ UNCHANGED <<env, configService, svcFields, muVars, cntVars, pc, loc, ev, ret,
                 doneCh, timer, sink, records, hist>>

\* service.go 151: s.wg.Wait() returns at once on a zero counter and blocks
\* otherwise
HelperWait(g) ==
  /\ helper[g] = "started"
  /\ IF wgCount = 0
       THEN /\ helper' = [helper EXCEPT ![g] = "returned"]
            /\ UNCHANGED wgWaiters
       ELSE /\ helper' = [helper EXCEPT ![g] = "blocked"]
            /\ wgWaiters' = wgWaiters \cup {g}
  /\ UNCHANGED <<env, configService, svcFields, muVars, activeOps, wgCount, pc,
                 loc, ev, ret, doneCh, timer, sink, records, hist>>

\* service.go 152: close(done)
HelperCloseDone(g) ==
  /\ helper[g] = "returned"
  /\ helper' = [helper EXCEPT ![g] = "exited"]
  /\ doneCh' = [doneCh EXCEPT ![g] = TRUE]
  /\ UNCHANGED <<env, configService, svcFields, muVars, cntVars, pc, loc, ev, ret,
                 timer, sink, records, hist>>

\* the timeout elapses
TimerFire(g) ==
  /\ timer[g] = "running"
  /\ timer' = [timer EXCEPT ![g] = "fired"]
  /\ hist' = [hist EXCEPT !.firedEarly = @ \/ Unterminated > 0]
  /\ UNCHANGED <<env, configService, svcFields, muVars, cntVars, pc, loc, ev, ret,
                 helper, doneCh, sink, records>>

\* AfterSelect with the warning tied to the logger field Close has cleared
\* instead of the logger it captured
AfterSelectCurrentLogger(g, timedOut) ==
  IF timedOut /\ loc[g].warn /\ logger # NilLogger THEN "c_warn_load"
  ELSE "c_lock2"

\* AfterSelect with the warning written whether or not the select timed out
AfterSelectAlwaysWarn(g, timedOut) ==
  IF loc[g].warn /\ loc[g].captured # NilLogger THEN "c_warn_load"
  ELSE "c_lock2"

\* where Close goes after the select (service.go 167)
AfterSelect(g, timedOut) ==
  IF timedOut /\ loc[g].warn /\ loc[g].captured # NilLogger THEN "c_warn_load"
  ELSE "c_lock2"

\* CloseSelectDone with a select that does not wait for the done channel
CloseSelectDoneEarly(g) ==
  /\ pc[g] = "c_select"
  /\ loc' = [loc EXCEPT ![g].timedOut = FALSE]
  /\ pc' = [pc EXCEPT ![g] = AfterSelect(g, FALSE)]
  /\ UNCHANGED <<env, configService, svcFields, muVars, cntVars, ev, ret,
                 closeVars, sink, records, hist>>

\* service.go 159-161: the select takes the done channel
CloseSelectDone(g) ==
  /\ pc[g] = "c_select"
  /\ doneCh[g]
  /\ loc' = [loc EXCEPT ![g].timedOut = FALSE]
  /\ pc' = [pc EXCEPT ![g] = AfterSelect(g, FALSE)]
  /\ UNCHANGED <<env, configService, svcFields, muVars, cntVars, ev, ret,
                 closeVars, sink, records, hist>>

\* service.go 162-163: the select takes the timer
CloseSelectTimer(g) ==
  /\ pc[g] = "c_select"
  /\ timer[g] = "fired"
  /\ loc' = [loc EXCEPT ![g].timedOut = TRUE]
  /\ pc' = [pc EXCEPT ![g] = AfterSelect(g, TRUE)]
  /\ UNCHANGED <<env, configService, svcFields, muVars, cntVars, ev, ret,
                 closeVars, sink, records, hist>>

\* service.go 168: activeOps := s.activeOps.Load()
CloseWarnLoad(g) ==
  /\ pc[g] = "c_warn_load"
  /\ loc' = [loc EXCEPT ![g].ops = activeOps]
  /\ pc' = [pc EXCEPT ![g] = "c_warn"]
  /\ UNCHANGED <<env, configService, svcFields, muVars, cntVars, ev, ret,
                 closeVars, sink, records, hist>>

\* the warning record of Close
WarnRecord(ops, timeoutMS) ==
  [kind |-> "warn", level |-> "warn", afterFlip |-> TRUE, late |-> FALSE,
   ops |-> ops, timeout |-> timeoutMS]

\* service.go 169-172: logger.Warn()...Msg(...) through the captured logger,
\* which drops the record when its threshold is above Warn
CloseWarn(g) ==
  /\ pc[g] = "c_warn"
  /\ IF LevelFiltered(loc[g].captured, "warn")
       THEN UNCHANGED <<records, sink>>
       ELSE /\ records' = records (+) SetToBag({WarnRecord(loc[g].ops, loc[g].timeoutMS)})
            /\ sink' = SinkAfterWrite(loc[g].captured)
  /\ pc' = [pc EXCEPT ![g] = "c_lock2"]
  /\ UNCHANGED <<env, configService, svcFields, muVars, cntVars, loc, ev, ret,
                 closeVars, hist>>

\* service.go 178: s.mu.Lock() announces the writer
CloseLock2Announce(g) ==
  /\ pc[g] = "c_lock2"
  /\ CanAnnounce
  /\ muPending' = g
  /\ pc' = [pc EXCEPT ![g] = "c_lock2_acq"]
  /\ UNCHANGED <<env, configService, svcFields, muReaders, muWriter, cntVars, loc,
                 ev, ret, closeVars, sink, records, hist>>

\* CloseTakeWriter with s.fileWriter = nil left out
CloseTakeWriterKept(g) ==
  /\ pc[g] = "c_lock2_acq"
  /\ muReaders = {}
  /\ muWriter' = g
  /\ muPending' = NULL
  /\ loc' = [loc EXCEPT ![g].fw = fileWriter]
  /\ pc' = [pc EXCEPT ![g] = "c_unlock2"]
  /\ UNCHANGED <<env, configService, svcFields, muReaders, cntVars, ev, ret,
                 closeVars, sink, records, hist>>

\* service.go 178-180: the lock is taken, fileWriter is moved to a local
CloseTakeWriter(g) ==
  /\ pc[g] = "c_lock2_acq"
  /\ muReaders = {}
  /\ muWriter' = g
  /\ muPending' = NULL
  /\ loc' = [loc EXCEPT ![g].fw = fileWriter]
  /\ fileWriter' = NULL
  /\ pc' = [pc EXCEPT ![g] = "c_unlock2"]
  /\ UNCHANGED <<env, configService, loggingConfig, workingDir, logger,
                 isInitialized, initOnce, initErr, muReaders, cntVars, ev, ret,
                 closeVars, sink, records, hist>>

\* service.go 181: s.mu.Unlock()
CloseUnlock2(g) ==
  /\ pc[g] = "c_unlock2"
  /\ muWriter' = NULL
  /\ pc' = [pc EXCEPT ![g] = "c_release"]
  /\ UNCHANGED <<env, configService, svcFields, muReaders, muPending, cntVars, loc,
                 ev, ret, closeVars, sink, records, hist>>

\* service.go 183-189: fileWriter.Close() (lumberjack closes the file it has
\* open, which can fail), the deferred timer.Stop(), and the return
CloseRelease(g, closeFails) ==
  /\ pc[g] = "c_release"
  /\ IF loc[g].fw = NULL
       THEN /\ ~closeFails
            /\ sink' = sink
            /\ ret' = [ret EXCEPT ![g] = [op |-> "Close", val |-> "nil", path |-> "full"]]
       ELSE /\ closeFails => sink.open
            /\ sink' = [open |-> FALSE, closeCalls |-> sink.closeCalls + 1]
            /\ ret' = [ret EXCEPT ![g] =
                         [op |-> "Close",
                          val |-> IF closeFails THEN "errFileWriterClose" ELSE "nil",
                          path |-> "full"]]
  /\ timer' = [timer EXCEPT ![g] = "off"]
  /\ pc' = [pc EXCEPT ![g] = "idle"]
  /\ loc' = [loc EXCEPT ![g] = [NoLoc EXCEPT !.timedOut = loc[g].timedOut]]
  /\ UNCHANGED <<env, configService, svcFields, muVars, cntVars, ev, helper,
                 doneCh, records, hist>>

\* ------------------------------------------------------------------------
\* Specifications
\* ------------------------------------------------------------------------

InitializeStep(g) ==
  \/ InitializeNil(g)
  \/ InitializeCall(g)
  \/ InitializeOnce(g)
  \/ InitializeBody(g)
  \/ InitializeStoreLogger(g)
  \/ InitializeStoreFlag(g)
  \/ InitializeReturn(g)

BeginStep(g) ==
  \/ BeginNil(g)
  \/ \E level \in BeginLevels : BeginCall(g, level)
  \/ BeginIncrement(g)
  \/ BeginWgAdd(g)
  \/ BeginRLock(g)
  \/ BeginRecheck(g)
  \/ BeginLoad(g)
  \/ BeginReturnTracked(g)
  \/ BeginUndoUnlock(g)
  \/ BeginUndoDecrement(g)
  \/ BeginUndoDone(g)

TerminalStep(g) ==
  \/ TerminalNoop(g)
  \/ TerminalWrite(g)
  \/ TerminalDecrement(g)
  \/ TerminalDone(g)
  \/ Abandon(g)

WithStep(g) ==
  \/ WithNil(g)
  \/ WithCall(g)
  \/ WithRLock(g)
  \/ WithRecheck(g)
  \/ WithLoad(g)
  \/ WithReturn(g)

CloseStep(g) ==
  \/ CloseNil(g)
  \/ CloseCall(g)
  \/ CloseLockAnnounce(g)
  \/ CloseLockAcquire(g)
  \/ CloseRecheck(g)
  \/ CloseCapture(g)
  \/ CloseFlip(g)
  \/ CloseClearLogger(g)
  \/ CloseUnlock(g)
  \/ CloseStartWait(g)
  \/ HelperWait(g)
  \/ HelperCloseDone(g)
  \/ TimerFire(g)
  \/ CloseSelectDone(g)
  \/ CloseSelectTimer(g)
  \/ CloseWarnLoad(g)
  \/ CloseWarn(g)
  \/ CloseLock2Announce(g)
  \/ CloseTakeWriter(g)
  \/ CloseUnlock2(g)
  \/ \E closeFails \in BOOLEAN : CloseRelease(g, closeFails)

\* The lifecycle: the owner initializes and closes the Service while two
\* goroutines log through it.
Init == InitWith(LifeEnvs, {TRUE})

Next ==
  \/ \E g \in Owners :
       \/ InitializeStep(g)
       \/ CloseStep(g)
  \/ \E g \in Producers :
       \/ BeginStep(g)
       \/ TerminalStep(g)

Spec == Init /\ [][Next]_vars

\* The steps a goroutine takes inside a call it has started; the Go
\* scheduler runs every runnable goroutine, and the runtime fires a running
\* timer. Starting a call, and the terminal call on a held event, are left to
\* the caller.
CloseProgress(g) ==
  \/ CloseLockAnnounce(g)
  \/ CloseLockAcquire(g)
  \/ CloseRecheck(g)
  \/ CloseCapture(g)
  \/ CloseFlip(g)
  \/ CloseClearLogger(g)
  \/ CloseUnlock(g)
  \/ CloseStartWait(g)
  \/ HelperWait(g)
  \/ HelperCloseDone(g)
  \/ TimerFire(g)
  \/ CloseSelectDone(g)
  \/ CloseSelectTimer(g)
  \/ CloseWarnLoad(g)
  \/ CloseWarn(g)
  \/ CloseLock2Announce(g)
  \/ CloseTakeWriter(g)
  \/ CloseUnlock2(g)
  \/ \E closeFails \in BOOLEAN : CloseRelease(g, closeFails)

BeginProgress(g) ==
  \/ BeginIncrement(g)
  \/ BeginWgAdd(g)
  \/ BeginRLock(g)
  \/ BeginRecheck(g)
  \/ BeginLoad(g)
  \/ BeginReturnTracked(g)
  \/ BeginUndoUnlock(g)
  \/ BeginUndoDecrement(g)
  \/ BeginUndoDone(g)

TerminalProgress(g) == TerminalDecrement(g) \/ TerminalDone(g)

InitializeProgress(g) ==
  \/ InitializeOnce(g)
  \/ InitializeBody(g)
  \/ InitializeStoreLogger(g)
  \/ InitializeStoreFlag(g)
  \/ InitializeReturn(g)

\* The lifecycle under this scheduling.
FairSpec ==
  /\ Spec
  /\ \A g \in Owners : WF_vars(CloseProgress(g)) /\ WF_vars(InitializeProgress(g))
  /\ \A g \in Producers : WF_vars(BeginProgress(g)) /\ WF_vars(TerminalProgress(g))

\* One goroutine that logs and derives context loggers while the owner
\* initializes and closes the Service.
NextWith ==
  \/ \E g \in Owners :
       \/ InitializeStep(g)
       \/ CloseStep(g)
  \/ \E g \in {"g1"} :
       \/ BeginStep(g)
       \/ TerminalStep(g)
       \/ WithStep(g)

SpecWith == Init /\ [][NextWith]_vars

\* Initialization alone: every goroutine calls Initialize, in any world, on
\* a Service whose ConfigService is set at construction or injected later.
InitInit == InitWith(InitEnvs, BOOLEAN)

NextInit ==
  \/ \E g \in Procs : InitializeStep(g)
  \/ InjectConfigService

SpecInit == InitInit /\ [][NextInit]_vars

\* ------------------------------------------------------------------------
\* Properties
\* ------------------------------------------------------------------------

\* the goroutines inside logEventBuilder that have incremented activeOps and
\* have not yet undone it or returned
BetweenAddAndUndo ==
  {g \in Procs : pc[g] \in {"b_wgadd", "b_rlock", "b_recheck", "b_load", "b_unlock",
                             "b_undo", "b_undo_dec"}}

\* the goroutines inside logEventBuilder between wg.Add(1) and wg.Done()
BetweenWgAddAndDone ==
  {g \in Procs : pc[g] \in {"b_rlock", "b_recheck", "b_load", "b_unlock", "b_undo",
                             "b_undo_dec", "b_undo_done"}}

\* the number of records of a kind written so far
NumRecords(kind) ==
  BagCardinality([r \in {x \in BagToSet(records) : x.kind = kind} |-> records[r]])

\* the step in which a full Close returns
CloseReturns(g) == pc[g] = "c_release" /\ pc'[g] = "idle"

AllTerminated ==
  /\ \A g \in Producers : pc[g] = "idle" /\ ev[g] = NilEvent
  /\ hist.abandoned = 0

C3_NoTrackedAfterFlip ==
  [][hist.flips' > 0 =>
       \A g \in Procs :
         /\ pc'[g] \notin {"b_load", "b_unlock"}
         /\ ev'[g] # ev[g] => ev'[g] \in {NoopEvent, NilEvent}]_vars

\* C3 witness: after the flip a begin-operation that passed the first check
\* before it is on the undo path, while an event created before the flip has
\* written its record after the flip and decremented the counter
C3_Witness ==
  /\ hist.flips > 0
  /\ \E g \in Producers : pc[g] = "b_undo"
  /\ \E r \in BagToSet(records) : r.kind = "event" /\ r.afterFlip
  /\ hist.tracked = 1
  /\ Unterminated = 0

\* the positions inside a Close that passed the first check
ClosePcs ==
  {"c_lock", "c_lock_acq", "c_recheck", "c_unlock_ret", "c_capture", "c_flag",
   "c_clear", "c_unlock", "c_wait", "c_select", "c_warn_load", "c_warn", "c_lock2",
   "c_lock2_acq", "c_unlock2", "c_release"}

\* C4 (amended): Close never blocks indefinitely: every Close that has
\* started returns, also when a tracked event never has its terminal call;
\* when it returns while a tracked event is unterminated, it took the timer
\* branch after the timeout elapsed, and the only error it can return is
\* the failure of fileWriter.Close() on a file writer whose file is open.
C4_CloseReturns ==
  /\ [][\A g \in Owners :
          (CloseReturns(g) /\ Unterminated > 0) =>
            /\ loc[g].timedOut
            /\ timer[g] = "fired"
            /\ ret'[g].op = "Close"
            /\ ret'[g].val \in {"nil", "errFileWriterClose"}
            /\ ret'[g].val # "nil" => (loc[g].fw # NULL /\ sink.open)]_vars
  /\ \A g \in Owners : (pc[g] \in ClosePcs) ~> (pc[g] = "idle" /\ ret[g].op = "Close")

\* C4 witness: Close has returned nil through the timer branch while an
\* abandoned event keeps the counter at 1
C4_Witness ==
  /\ ret["main"] = [op |-> "Close", val |-> "nil", path |-> "full"]
  /\ pc["main"] = "idle"
  /\ loc["main"].timedOut
  /\ hist.abandoned = 1
  /\ activeOps = 1

\* C4 as stated: with an abandoned event Close returns without error, and
\* only after the timeout has elapsed.
C4_Original ==
  [][\A g \in Owners :
       (CloseReturns(g) /\ hist.abandoned > 0) =>
         (ret'[g].val = "nil" /\ loc[g].timedOut /\ timer[g] = "fired")]_vars

\* the warning records written so far
WarnRecords == {r \in BagToSet(records) : r.kind = "warn"}

\* C5 (amended): when Close takes the timer branch and
\* ShutdownTimeoutWarning is enabled, it emits at most one warning record,
\* through the logger it captured before the flip: exactly one when that
\* logger's threshold admits Warn, none when the threshold is above Warn.
\* The record carries the value of activeOps Close loaded (at least the
\* number of events that never terminate) and the timeout in force; Close
\* then releases the file writer and returns. Without a timeout, or with
\* the warning disabled, there is no warning record.
C5_TimeoutWarning ==
  [][\A g \in Owners :
       CloseReturns(g) =>
         LET warned == loc[g].timedOut /\ WarnOnTimeout(loggingConfig)
                       /\ ~LevelFiltered(loc[g].captured, "warn")
         IN  /\ loc[g].captured # NilLogger /\ logger = NilLogger
             /\ NumRecords("warn") = (IF warned THEN 1 ELSE 0)
             /\ \A r \in WarnRecords :
                   /\ r = WarnRecord(loc[g].ops, ShutdownTimeout(loggingConfig))
                   /\ r.ops >= hist.abandoned
                   /\ r.ops <= hist.begun
             /\ fileWriter = NULL
             /\ ~sink'.open
             /\ pc'[g] = "idle"]_vars

\* C5 witness: Close has returned after a timeout with one warning record
\* that carries one active operation and the configured timeout
C5_Witness ==
  /\ ret["main"].op = "Close" /\ ret["main"].path = "full"
  /\ loc["main"].timedOut
  /\ hist.firedEarly
  /\ hist.abandoned = 1
  /\ WarnRecords = {WarnRecord(1, 20)}
  /\ NumRecords("warn") = 1
  /\ fileWriter = NULL

\* C5 as stated: when the timeout elapses before the counter reaches zero
\* and ShutdownTimeoutWarning is enabled, Close emits exactly one warning
\* record.
C5_Original ==
  [][\A g \in Owners :
       (CloseReturns(g) /\ loc[g].timedOut /\ hist.firedEarly
          /\ WarnOnTimeout(loggingConfig)) =>
         NumRecords("warn") = 1]_vars

\* what Close must leave alone when it has nothing to close
ServiceState == <<svcFields, muVars, cntVars, closeVars, sink, records, hist, ev, loc>>

\* C6: Close on a nil, never initialized or already closed Service returns
\* nil at once and changes nothing: it does not take the lock, flip, wait
\* or release the file writer; a repeated Close is a no-op.
C6_CloseIdempotent ==
  [][\A g \in Owners :
       /\ (pc[g] = "idle" /\ ~isInitialized) => pc'[g] \notin ClosePcs
       /\ (pc[g] = "idle" /\ ret'[g] # ret[g] /\ ret'[g].op = "Close") =>
            /\ ret'[g].val = "nil"
            /\ ret'[g].path \in {"nilReceiver", "notInitialized"}
            /\ ret'[g].path = "notInitialized" => ~isInitialized
            /\ pc'[g] = "idle"
            /\ UNCHANGED ServiceState]_vars

\* C6 witness: a second Close has returned nil on the Service the first
\* Close closed and released
C6_Witness ==
  /\ ret["main"] = [op |-> "Close", val |-> "nil", path |-> "notInitialized"]
  /\ hist.flips = 1
  /\ sink.closeCalls = 1
  /\ fileWriter = NULL
  /\ ~isInitialized

\* the Initialize calls that went through initOnce.Do and returned
ReturnedOnce == {g \in Procs : ret[g].op = "Initialize" /\ ret[g].path = "once"}

\* C7 (amended): under concurrent Initialize calls the initialization body
\* runs at most once and at most one logger is ever published: exactly one
\* when the initialization succeeds, none when it fails; every caller
\* receives the same result, the stored initErr.
C7_InitializeOnce ==
  /\ hist.bodyRuns <= 1
  /\ hist.published <= 1
  /\ hist.published = 1 => (initErr = "nil" /\ logger # NilLogger)
  /\ initOnce = "done" => hist.published = (IF initErr = "nil" THEN 1 ELSE 0)
  /\ \A g \in ReturnedOnce : ret[g].val = initErr

\* C7 witness: three concurrent callers have returned nil after one run of
\* the body and one published logger
C7_Witness ==
  /\ ReturnedOnce = Procs
  /\ \A g \in Procs : ret[g].val = "nil" /\ pc[g] = "idle"
  /\ hist.bodyRuns = 1
  /\ hist.published = 1
  /\ isInitialized

\* C7 as stated: once the concurrent callers have returned, the body has run
\* at most once, exactly one logger has been published and all results are
\* the same.
C7_Original ==
  ReturnedOnce = Procs =>
    /\ hist.bodyRuns <= 1
    /\ hist.published = 1
    /\ \A g, h \in Procs : ret[g].val = ret[h].val

\* the failures of the initialization steps, read off the environment
StepFails(e) ==
  \/ e.cfgErr
  \/ e.cfg.Level \notin (LevelNames \cup {""})
  \/ e.cfg.RelLogFileDir = EmptyPath
  \/ e.cfg.RelLogFileDir.abs
  \/ \E i \in DOMAIN Clean(e.cfg.RelLogFileDir).segs :
        Clean(e.cfg.RelLogFileDir).segs[i] = ".."
  \/ e.workingDir = "" /\ e.exeDirErr
  \/ ~e.dirExists /\ e.mkdirErr
  \/ e.exeNameErr

\* C8: Initialize is all-or-nothing: when a step of the one-shot section
\* fails (configuration retrieval, validation, working directory, directory
\* creation, executable name), Initialize returns an error, no logger is
\* published, and the Service is not Ready then or later; a Ready Service
\* has a published logger and a nil initErr.
C8_AllOrNothing ==
  /\ initErr # "nil" => (logger = NilLogger /\ ~isInitialized /\ hist.published = 0)
  /\ (initOnce = "done" /\ StepFails(env)) => initErr # "nil"
  /\ \A g \in ReturnedOnce : ret[g].val # "nil" => (logger = NilLogger /\ ~isInitialized)
  /\ isInitialized => (logger # NilLogger /\ initErr = "nil")

\* C8 witness: Initialize has returned the error of a failed directory
\* creation, after the configuration was stored, and the Service is not
\* Ready
C8_Witness ==
  /\ \E g \in Procs : ret[g] = [op |-> "Initialize", val |-> "errMkdirAll", path |-> "once"]
  /\ loggingConfig # NilConfig
  /\ logger = NilLogger
  /\ ~isInitialized
  /\ \A g \in Procs : pc[g] = "idle"

\* the side effects of the initialization counted so far
InitEffects == <<hist.bodyRuns, hist.published, hist.cfgReads, hist.fwCreated, hist.mkdirs>>

\* C9 (amended): once a call has gone through the one-shot section, every
\* later Initialize call made with ConfigService set returns that attempt's
\* result and re-runs no side effect. (A call made while ConfigService is nil
\* returns the configuration-not-set error without using up the one-shot.)
C9_Subsequent ==
  [][initOnce = "done" =>
       /\ UNCHANGED <<svcFields, InitEffects>>
       /\ \A g \in Procs :
            (ret'[g] # ret[g] /\ ret'[g].op = "Initialize" /\ ret'[g].path = "once")
              => ret'[g].val = initErr
       /\ hist.first \notin {"none", "errAppCfgNotSet"} => hist.first = initErr]_vars

\* C9 witness: after a first call that ran the body and failed, a later
\* call by another goroutine has returned the same error
C9_Witness ==
  /\ initOnce = "done"
  /\ hist.first = "errRelDirTraversal"
  /\ hist.bodyRuns = 1
  /\ Cardinality({g \in ReturnedOnce : ret[g].val = "errRelDirTraversal"}) >= 2
  /\ \A g \in Procs : pc[g] = "idle"

\* C9 as stated: every Initialize call on an instance returns the result of
\* the first attempt on it, and the body does not run after that attempt.
C9_Original ==
  \A g \in Procs :
    (ret[g].op = "Initialize" /\ ret[g].path # "nilReceiver") =>
      ret[g].val = hist.first

\* what a producer call on a Service that is not Ready must leave alone
SharedState == <<svcFields, muVars, cntVars, closeVars, sink, records>>

\* C10: a producer call on a Service that is not Ready (nil, never
\* initialized, failed initialization, Closed) returns at once and changes
\* nothing: a begin-operation returns the no-op builder, whose terminal call
\* emits nothing, and With returns the no-op context, whose Logger() is the
\* no-op logger.
C10_NotReadyInert ==
  [][\A g \in Producers :
       /\ (pc[g] = "idle" /\ ~isInitialized /\ ~Tracked(g)
             /\ <<pc[g], ev[g], ret[g]>> # <<pc'[g], ev'[g], ret'[g]>>) =>
            /\ pc'[g] = "idle"
            /\ UNCHANGED SharedState
            /\ ev[g] = NilEvent => ev'[g] \in {NilEvent, NoopEvent}
            /\ ev[g] = NoopEvent => ev'[g] \in {NilEvent, NoopEvent}
            /\ ret'[g] # ret[g] =>
                 /\ ret'[g].op = "With"
                 /\ ret'[g].val = "noopLogContext"
                 /\ LoggerOf(ret'[g].val) = "noopLogger"
       /\ (ret'[g] # ret[g] /\ ret'[g].path = "nilReceiver") =>
            /\ ret'[g].val = "noopLogContext"
            /\ UNCHANGED <<SharedState, pc, ev>>
       /\ (pc[g] = "idle" /\ pc'[g] = "idle" /\ ev[g] = NilEvent /\ ev'[g] # NilEvent) =>
            (ev'[g] = NoopEvent /\ UNCHANGED SharedState)
       /\ (ev[g] = NoopEvent /\ ev'[g] # ev[g]) =>
            (ev'[g] = NilEvent /\ UNCHANGED <<SharedState, pc>>)]_vars

\* C10 witness: on the Closed Service a begin-operation has returned the
\* no-op builder and With the no-op context, with the counters at zero and
\* no record written
C10_Witness ==
  /\ hist.flips = 1
  /\ ~isInitialized
  /\ hist.begun = 0
  /\ ev["g1"] = NoopEvent
  /\ ret["g1"] = [op |-> "With", val |-> "noopLogContext", path |-> "notInitialized"]
  /\ activeOps = 0 /\ wgCount = 0
  /\ records = EmptyBag

\* ------------------------------------------------------------------------
\* Service.Hook (the Service of service.go 277-283: logger, initialized)
\* ------------------------------------------------------------------------

\* Hook calls of one goroutine
MaxHookCalls == 2

\* the logger Initialize published: no hooks yet; id stands for the address
\* of the zerolog.Logger the pointer refers to
HookLogger0 == [id |-> 0, hooks |-> <<>>]

\* zerolog's Logger.Hook: a copy of the logger with the hooks appended, at a
\* fresh address
DeriveHook(old, hooks) == [id |-> old.id + 1, hooks |-> old.hooks \o hooks]

\* a Service that is Ready, or one Initialize never ran on; hist counts the
\* Hook calls each goroutine has started, those that returned after a
\* successful swap, and the failed swaps
InitHook ==
  /\ isInitialized \in BOOLEAN
  /\ logger = (IF isInitialized THEN HookLogger0 ELSE NilLogger)
  /\ env = GoodEnv
  /\ configService = TRUE
  /\ loggingConfig = GoodCfg
  /\ workingDir = GoodEnv.workingDir
  /\ fileWriter = "fw"
  /\ initOnce = "done"
  /\ initErr = "nil"
  /\ muReaders = {}
  /\ muWriter = NULL
  /\ muPending = NULL
  /\ activeOps = 0
  /\ wgCount = 0
  /\ wgWaiters = {}
  /\ pc = [g \in Procs |-> "idle"]
  /\ loc = [g \in Procs |-> NoLoc]
  /\ ev = [g \in Procs |-> NilEvent]
  /\ ret = [g \in Procs |-> NoRet]
  /\ helper = [g \in Procs |-> "none"]
  /\ doneCh = [g \in Procs |-> FALSE]
  /\ timer = [g \in Procs |-> "off"]
  /\ sink = [open |-> FALSE, closeCalls |-> 0]
  /\ records = EmptyBag
  /\ hist = [started |-> [g \in Procs |-> 0], swapped |-> [g \in Procs |-> 0],
             retries |-> 0]

\* service.go 387-389: if !s.initialized.Load() { return }
HookCall(g) ==
  /\ pc[g] = "idle"
  /\ hist.started[g] < MaxHookCalls
  /\ hist' = [hist EXCEPT !.started[g] = @ + 1]
  /\ IF ~isInitialized
       THEN /\ ret' = [ret EXCEPT ![g] = [op |-> "Hook", val |-> "none",
                                        path |-> "notInitialized"]]
            /\ pc' = pc
       ELSE /\ ret' = [ret EXCEPT ![g] = NoRet]
            /\ pc' = [pc EXCEPT ![g] = "h_load"]
  /\ UNCHANGED <<env, configService, svcFields, muVars, cntVars, loc, ev,
                 closeVars, sink, records>>

\* service.go 393-396: oldLogger := s.logger.Load(); nil returns
HookLoad(g) ==
  /\ pc[g] = "h_load"
  /\ IF logger = NilLogger
       THEN /\ ret' = [ret EXCEPT ![g] = [op |-> "Hook", val |-> "none",
                                        path |-> "nilLogger"]]
            /\ pc' = [pc EXCEPT ![g] = "idle"]
            /\ loc' = loc
       ELSE /\ loc' = [loc EXCEPT ![g].lg = logger]
            /\ pc' = [pc EXCEPT ![g] = "h_cas"]
            /\ ret' = ret
  /\ UNCHANGED <<env, configService, svcFields, muVars, cntVars, ev,
                 closeVars, sink, records, hist>>

\* HookSwap with a plain Store in place of the compare-and-swap
HookSwapStore(g) ==
  /\ pc[g] = "h_cas"
  /\ logger' = DeriveHook(loc[g].lg, <<g>>)
  /\ hist' = [hist EXCEPT !.swapped[g] = @ + 1]
  /\ ret' = [ret EXCEPT ![g] = [op |-> "Hook", val |-> "none", path |-> "swapped"]]
  /\ pc' = [pc EXCEPT ![g] = "idle"]
  /\ loc' = [loc EXCEPT ![g] = NoLoc]
  /\ UNCHANGED <<env, configService, loggingConfig, workingDir, fileWriter,
                 isInitialized, initOnce, initErr, muVars, cntVars, ev,
                 closeVars, sink, records>>

\* service.go 398-403: newLogger := oldLogger.Hook(hooks...); the
\* compare-and-swap publishes it when s.logger still points to oldLogger,
\* otherwise the loop starts over
HookSwap(g) ==
  /\ pc[g] = "h_cas"
  /\ IF logger = loc[g].lg
       THEN /\ logger' = DeriveHook(loc[g].lg, <<g>>)
            /\ hist' = [hist EXCEPT !.swapped[g] = @ + 1]
            /\ ret' = [ret EXCEPT ![g] = [op |-> "Hook", val |-> "none",
                                        path |-> "swapped"]]
            /\ pc' = [pc EXCEPT ![g] = "idle"]
       ELSE /\ pc' = [pc EXCEPT ![g] = "h_load"]
            /\ hist' = [hist EXCEPT !.retries = @ + 1]
            /\ UNCHANGED <<logger, ret>>
  /\ loc' = [loc EXCEPT ![g] = NoLoc]
  /\ UNCHANGED <<env, configService, loggingConfig, workingDir, fileWriter,
                 isInitialized, initOnce, initErr, muVars, cntVars, ev,
                 closeVars, sink, records>>

\* Concurrent Hook calls: every goroutine attaches its own hook, repeatedly.
NextHook ==
  \E g \in Procs :
    \/ HookCall(g)
    \/ HookLoad(g)
    \/ HookSwap(g)

SpecHook == InitHook /\ [][NextHook]_vars

\* the number of times hook h occurs in a sequence of hooks
RECURSIVE CountHook(_, _)
CountHook(hooks, h) ==
  IF hooks = <<>> THEN 0
  ELSE (IF Head(hooks) = h THEN 1 ELSE 0) + CountHook(Tail(hooks), h)

\* C11: under any interleaving of concurrent Hook calls on a Ready Service
\* no enrichment is lost: the published logger carries the hook of every
\* call whose swap succeeded, once per call, and every call on the Ready
\* Service returns only after its swap succeeded.
C11_NoHookLost ==
  isInitialized =>
    /\ logger # NilLogger
    /\ \A g \in Procs :
         /\ CountHook(logger.hooks, g) = hist.swapped[g]
         /\ hist.started[g] = hist.swapped[g] + (IF pc[g] = "idle" THEN 0 ELSE 1)
    /\ Len(logger.hooks) = logger.id

\* C11 witness: all goroutines have returned from all their Hook calls,
\* two swaps failed and were retried on the way, and the published logger
\* carries every hook
C11_Witness ==
  /\ isInitialized
  /\ \A g \in Procs : pc[g] = "idle" /\ hist.swapped[g] = MaxHookCalls
  /\ Len(logger.hooks) = MaxHookCalls * Cardinality(Procs)
  /\ hist.retries >= 2

\* ------------------------------------------------------------------------
\* Context loggers: logContext.Logger, contextLogger,
\* newTrackedContextLogEvent
\* ------------------------------------------------------------------------

\* nesting depth of the contexts a goroutine derives
MaxCtxDepth == 2

\* the goroutine holds a logContext: its Logger() is a contextLogger with
\* logger = the wrapped snapshot and parent = the Service
HoldsContext(g) == ret[g].op = "With" /\ ret[g].val = "logContext"

\* the goroutine holds the no-op context: its Logger() is the noopLogger
HoldsNoopContext(g) == ret[g].op = "With" /\ ret[g].val = "noopLogContext"

\* noopLogger.DebugWith() .. PanicWith(): newLogEvent(nil)
CtxBeginNoop(g) ==
  /\ pc[g] = "idle" /\ ev[g] = NilEvent
  /\ HoldsNoopContext(g)
  /\ ev' = [ev EXCEPT ![g] = NoopEvent]
  /\ UNCHANGED <<env, configService, svcFields, muVars, cntVars, pc, loc, ret,
                 closeVars, sink, records, hist>>

\* contextLogger.DebugWith() .. PanicWith(): the first check of the
\* parent's isInitialized
CtxBeginCall(g, level) ==
  /\ pc[g] = "idle" /\ ev[g] = NilEvent
  /\ HoldsContext(g)
  /\ IF ~isInitialized
       THEN /\ ev' = [ev EXCEPT ![g] = NoopEvent]
            /\ UNCHANGED <<pc, loc, hist>>
       ELSE /\ hist.begun < MaxBegin
            /\ hist' = [hist EXCEPT !.begun = @ + 1]
            /\ pc' = [pc EXCEPT ![g] = "x_inc"]
            /\ loc' = [loc EXCEPT ![g] = [NoLoc EXCEPT !.level = level,
                                                       !.lg = ret[g].lg]]
            /\ UNCHANGED ev
  /\ UNCHANGED <<env, configService, svcFields, muVars, cntVars, ret, closeVars,
                 sink, records>>

\* internal.go 1566: cl.parent.activeOps.Add(1)
CtxBeginIncrement(g) ==
  /\ pc[g] = "x_inc"
  /\ activeOps' = activeOps + 1
  /\ pc' = [pc EXCEPT ![g] = "x_wgadd"]
  /\ UNCHANGED <<env, configService, svcFields, muVars, wgCount, wgWaiters, loc,
                 ev, ret, closeVars, sink, records, hist>>

\* internal.go 1567: cl.parent.wg.Add(1)
CtxBeginWgAdd(g) ==
  /\ pc[g] = "x_wgadd"
  /\ wgCount' = wgCount + 1
  /\ pc' = [pc EXCEPT ![g] = "x_rlock"]
  /\ UNCHANGED <<env, configService, svcFields, muVars, activeOps, wgWaiters, loc,
                 ev, ret, closeVars, sink, records, hist>>

\* internal.go 1570: cl.parent.mu.RLock()
CtxBeginRLock(g) ==
  /\ pc[g] = "x_rlock"
  /\ CanRLock
  /\ muReaders' = muReaders \cup {g}
  /\ pc' = [pc EXCEPT ![g] = "x_recheck"]
  /\ UNCHANGED <<env, configService, svcFields, muWriter, muPending, cntVars, loc,
                 ev, ret, closeVars, sink, records, hist>>

\* CtxBeginRecheck without the re-check of the parent's isInitialized
CtxBeginRecheckSkipped(g) ==
  /\ pc[g] = "x_recheck"
  /\ pc' = [pc EXCEPT ![g] = "x_level"]
  /\ UNCHANGED <<env, configService, svcFields, muVars, cntVars, loc, ev, ret,
                 closeVars, sink, records, hist>>

\* internal.go 1573: the re-check of the parent's isInitialized under the
\* parent's read lock
CtxBeginRecheck(g) ==
  /\ pc[g] = "x_recheck"
  /\ pc' = [pc EXCEPT ![g] = IF isInitialized THEN "x_level" ELSE "x_undo"]
  /\ UNCHANGED <<env, configService, svcFields, muVars, cntVars, loc, ev, ret,
                 closeVars, sink, records, hist>>

\* internal.go 1580-1609: cl.logger.GetLevel() > level undoes the
\* increment, otherwise the event is created from cl.logger
CtxBeginLevel(g) ==
  /\ pc[g] = "x_level"
  /\ pc' = [pc EXCEPT ![g] = IF LevelFiltered(loc[g].lg, loc[g].level)
                              THEN "x_undo" ELSE "x_unlock"]
  /\ UNCHANGED <<env, configService, svcFields, muVars, cntVars, loc, ev, ret,
                 closeVars, sink, records, hist>>

\* internal.go 1610-1612: cl.parent.mu.RUnlock() and return
\* newTrackedLogEvent(event, cl.parent)
CtxBeginReturnTracked(g) ==
  /\ pc[g] = "x_unlock"
  /\ muReaders' = muReaders \ {g}
  /\ ev' = [ev EXCEPT ![g] = newTrackedLogEvent(FALSE, FALSE, loc[g].lg, loc[g].level)]
  /\ hist' = [hist EXCEPT !.tracked = @ + 1]
  /\ pc' = [pc EXCEPT ![g] = "idle"]
  /\ loc' = [loc EXCEPT ![g] = NoLoc]
  /\ UNCHANGED <<env, configService, svcFields, muWriter, muPending, cntVars, ret,
                 closeVars, sink, records>>

\* the undo paths (internal.go 1574, 1581): cl.parent.mu.RUnlock()
CtxBeginUndoUnlock(g) ==
  /\ pc[g] = "x_undo"
  /\ muReaders' = muReaders \ {g}
  /\ pc' = [pc EXCEPT ![g] = "x_undo_dec"]
  /\ UNCHANGED <<env, configService, svcFields, muWriter, muPending, cntVars, loc,
                 ev, ret, closeVars, sink, records, hist>>

\* the undo paths: cl.parent.activeOps.Add(-1)
CtxBeginUndoDecrement(g) ==
  /\ pc[g] = "x_undo_dec"
  /\ activeOps' = activeOps - 1
  /\ pc' = [pc EXCEPT ![g] = "x_undo_done"]
  /\ UNCHANGED <<env, configService, svcFields, muVars, wgCount, wgWaiters, loc, ev,
                 ret, closeVars, sink, records, hist>>

\* the undo paths: cl.parent.wg.Done() and return newLogEvent(nil)
CtxBeginUndoDone(g) ==
  /\ pc[g] = "x_undo_done"
  /\ WgDone
  /\ hist' = [hist EXCEPT !.undone = @ + 1]
  /\ ev' = [ev EXCEPT ![g] = NoopEvent]
  /\ pc' = [pc EXCEPT ![g] = "idle"]
  /\ loc' = [loc EXCEPT ![g] = NoLoc]
  /\ UNCHANGED <<env, configService, svcFields, muVars, activeOps, ret, doneCh,
                 timer, sink, records>>

\* noopLogger.With(): the no-op context
CtxWithNoop(g) ==
  /\ pc[g] = "idle"
  /\ HoldsNoopContext(g)
  /\ ret' = [ret EXCEPT ![g] = [op |-> "With", val |-> "noopLogContext",
                               path |-> "noopLogger"]]
  /\ UNCHANGED <<env, configService, svcFields, muVars, cntVars, pc, loc, ev,
                 closeVars, sink, records, hist>>

\* contextLogger.With(): the first check of the parent's isInitialized
CtxWithCall(g) ==
  /\ pc[g] = "idle"
  /\ HoldsContext(g)
  /\ ret[g].depth < MaxCtxDepth
  /\ IF ~isInitialized
       THEN /\ ret' = [ret EXCEPT ![g] = [op |-> "With", val |-> "noopLogContext",
                                        path |-> "ctxNotInitialized"]]
            /\ UNCHANGED <<pc, loc>>
       ELSE /\ pc' = [pc EXCEPT ![g] = "xw_rlock"]
            /\ loc' = [loc EXCEPT ![g].lg = ret[g].lg]
            /\ ret' = ret
  /\ UNCHANGED <<env, configService, svcFields, muVars, cntVars, ev, closeVars,
                 sink, records, hist>>

\* contextLogger.With(): cl.parent.mu.RLock()
CtxWithRLock(g) ==
  /\ pc[g] = "xw_rlock"
  /\ CanRLock
  /\ muReaders' = muReaders \cup {g}
  /\ pc' = [pc EXCEPT ![g] = "xw_recheck"]
  /\ UNCHANGED <<env, configService, svcFields, muWriter, muPending, cntVars, loc,
                 ev, ret, closeVars, sink, records, hist>>

\* contextLogger.With(): the re-check under the parent's read lock
CtxWithRecheck(g) ==
  /\ pc[g] = "xw_recheck"
  /\ loc' = [loc EXCEPT ![g].lg = IF isInitialized THEN @ ELSE NilLogger]
  /\ pc' = [pc EXCEPT ![g] = "xw_unlock"]
  /\ UNCHANGED <<env, configService, svcFields, muVars, cntVars, ev, ret,
                 closeVars, sink, records, hist>>

\* contextLogger.With(): the deferred RUnlock and the return of a logContext
\* that wraps cl.logger.With() and keeps the parent
CtxWithReturn(g) ==
  /\ pc[g] = "xw_unlock"
  /\ muReaders' = muReaders \ {g}
  /\ ret' = [ret EXCEPT ![g] =
               IF loc[g].lg = NilLogger
                 THEN [op |-> "With", val |-> "noopLogContext", path |-> "ctxLocked"]
                 ELSE [op |-> "With", val |-> "logContext", path |-> "ctxLocked",
                       lg |-> loc[g].lg, depth |-> ret[g].depth + 1]]
  /\ pc' = [pc EXCEPT ![g] = "idle"]
  /\ loc' = [loc EXCEPT ![g] = NoLoc]
  /\ UNCHANGED <<env, configService, svcFields, muWriter, muPending, cntVars, ev,
                 closeVars, sink, records, hist>>

CtxBeginStep(g) ==
  \/ CtxBeginNoop(g)
  \/ \E level \in BeginLevels : CtxBeginCall(g, level)
  \/ CtxBeginIncrement(g)
  \/ CtxBeginWgAdd(g)
  \/ CtxBeginRLock(g)
  \/ CtxBeginRecheck(g)
  \/ CtxBeginLevel(g)
  \/ CtxBeginReturnTracked(g)
  \/ CtxBeginUndoUnlock(g)
  \/ CtxBeginUndoDecrement(g)
  \/ CtxBeginUndoDone(g)

CtxWithStep(g) ==
  \/ CtxWithNoop(g)
  \/ CtxWithCall(g)
  \/ CtxWithRLock(g)
  \/ CtxWithRecheck(g)
  \/ CtxWithReturn(g)

\* One goroutine that derives context loggers from the Service and logs
\* through them only, while the owner initializes and closes the Service.
NextCtx ==
  \/ \E g \in Owners :
       \/ InitializeStep(g)
       \/ CloseStep(g)
  \/ \E g \in {"g1"} :
       \/ WithStep(g)
       \/ CtxWithStep(g)
       \/ CtxBeginStep(g)
       \/ TerminalStep(g)

SpecCtx == Init /\ [][NextCtx]_vars

\* the goroutines inside newTrackedContextLogEvent between
\* parent.activeOps.Add(1) and the undoing Add(-1)
CtxBetweenAddAndUndo ==
  {g \in Procs : pc[g] \in {"x_wgadd", "x_rlock", "x_recheck", "x_level", "x_unlock",
                             "x_undo", "x_undo_dec"}}

\* the goroutines inside newTrackedContextLogEvent between parent.wg.Add(1)
\* and the undoing wg.Done()
CtxBetweenWgAddAndDone ==
  {g \in Procs : pc[g] \in {"x_rlock", "x_recheck", "x_level", "x_unlock", "x_undo",
                             "x_undo_dec", "x_undo_done"}}

\* the live events whose terminal call has not yet decremented activeOps
CtxLiveEvents == Cardinality({g \in Procs : Tracked(g) /\ pc[g] # "t_done"}) + hist.abandoned

MaxChainLen == 3
MaxAttach == 2

\* helper.go 31
maxDepth == 50

\* An error is the sequence of its links, outermost first; the cause of a
\* link (DetailedError.Cause(), errors.Unwrap) is the rest of the sequence,
\* nil after the last link, and the nil error is the empty sequence.  A
\* link is a DetailedError (tagged, with Error() = msg and Op() = op) or an
\* error of another type that wraps its cause.
NilError == <<>>
ErrLinks ==
  {[tagged |-> TRUE, msg |-> "a", op |-> "opA"],
   [tagged |-> TRUE, msg |-> "b", op |-> "opB"],
   [tagged |-> TRUE, msg |-> "c", op |-> "opC"],
   [tagged |-> TRUE, msg |-> "c", op |-> ""],
   [tagged |-> FALSE, msg |-> "w", op |-> ""],
   [tagged |-> FALSE, msg |-> "c", op |-> ""]}
ErrInputs == UNION {[1..n -> ErrLinks] : n \in 0..MaxChainLen}

\* smerrors.AsDetailedError(err) is code of another module: it either looks
\* at err itself only (a type assertion) or at the first DetailedError of
\* err's chain (errors.As).  The result is the position of the link found,
\* 0 when there is none.
AsModes == {"assert", "as"}
AsDetailedError(err, mode) ==
  IF mode = "assert"
    THEN IF err[1].tagged THEN 1 ELSE 0
    ELSE IF \E i \in 1..Len(err) : err[i].tagged
           THEN CHOOSE i \in 1..Len(err) :
                  err[i].tagged /\ \A j \in 1..(i - 1) : ~err[j].tagged
           ELSE 0

\* the loop of buildErrorChain written with the op of an entry put in front
\* of ops instead of appended
RECURSIVE buildErrorChainLoopOpsReversed(_, _, _, _, _, _)
buildErrorChainLoopOpsReversed(err, mode, visited, seen, chain, ops) ==
  IF err = NilError \/ visited >= maxDepth
    THEN [chain |-> chain, ops |-> ops]
    ELSE LET d == AsDetailedError(err, mode) IN
         IF d # 0
           THEN buildErrorChainLoopOpsReversed(SubSeq(err, d + 1, Len(err)), mode,
                                  visited + 1, seen,
                                  Append(chain, err[d].msg), <<err[d].op>> \o ops)
           ELSE IF err[1].msg \in seen
                  THEN [chain |-> chain, ops |-> ops]
                  ELSE buildErrorChainLoopOpsReversed(Tail(err), mode, visited + 1,
                                         seen \cup {err[1].msg},
                                         Append(chain, err[1].msg), <<"">> \o ops)

\* the loop of buildErrorChain without the check of seen: a generic link
\* whose message was appended before is appended again
RECURSIVE buildErrorChainLoopNoSeen(_, _, _, _, _, _)
buildErrorChainLoopNoSeen(err, mode, visited, seen, chain, ops) ==
  IF err = NilError \/ visited >= maxDepth
    THEN [chain |-> chain, ops |-> ops]
    ELSE LET d == AsDetailedError(err, mode) IN
         IF d # 0
           THEN buildErrorChainLoopNoSeen(SubSeq(err, d + 1, Len(err)), mode,
                                          visited + 1, seen,
                                          Append(chain, err[d].msg), Append(ops, err[d].op))
           ELSE buildErrorChainLoopNoSeen(Tail(err), mode, visited + 1,
                                          seen \cup {err[1].msg},
                                          Append(chain, err[1].msg), Append(ops, ""))

\* helper.go 35-59: the loop of buildErrorChain
RECURSIVE buildErrorChainLoop(_, _, _, _, _, _)
buildErrorChainLoop(err, mode, visited, seen, chain, ops) ==
  IF err = NilError \/ visited >= maxDepth
    THEN [chain |-> chain, ops |-> ops]
    ELSE LET d == AsDetailedError(err, mode) IN
         IF d # 0
           THEN buildErrorChainLoop(SubSeq(err, d + 1, Len(err)), mode,
                                    visited + 1, seen,
                                    Append(chain, err[d].msg), Append(ops, err[d].op))
           ELSE IF err[1].msg \in seen
                  THEN [chain |-> chain, ops |-> ops]
                  ELSE buildErrorChainLoop(Tail(err), mode, visited + 1,
                                           seen \cup {err[1].msg},
                                           Append(chain, err[1].msg), Append(ops, ""))

\* buildErrorChain with rootOp taken from the first entry of ops
buildErrorChainRootOpFirst(err, mode) ==
  LET r == buildErrorChainLoop(err, mode, 0, {}, <<>>, <<>>) IN
  [chain |-> r.chain, ops |-> r.ops,
   root |-> IF Len(r.chain) > 0 THEN r.chain[Len(r.chain)] ELSE "",
   rootOp |-> IF Len(r.ops) > 0 THEN r.ops[1] ELSE ""]

\* helper.go 30-68: buildErrorChain
buildErrorChain(err, mode) ==
  LET r == buildErrorChainLoop(err, mode, 0, {}, <<>>, <<>>) IN
  [chain |-> r.chain, ops |-> r.ops,
   root |-> IF Len(r.chain) > 0 THEN r.chain[Len(r.chain)] ELSE "",
   rootOp |-> IF Len(r.ops) > 0 THEN r.ops[Len(r.ops)] ELSE ""]

\* helper.go 71-76: joinChain, strings.Join(chain, " -> ")
RECURSIVE joinChain(_)
joinChain(chain) ==
  IF Len(chain) = 0 THEN ""
  ELSE IF Len(chain) = 1 THEN chain[1]
  ELSE chain[1] \o " -> " \o joinChain(Tail(chain))

\* newLogEvent(e) for a non-nil zerolog event: the fields added so far
LiveEvent == [kind |-> "event", fields |-> <<>>]

\* the keys AnErr is called with
ErrKeys == {"cause", "cause_root"}

\* zerolog's Event.AnErr(key, err): the field key with err.Error(), nothing
\* for a nil error
BaseErrField(key, err) ==
  IF err = NilError THEN <<>> ELSE <<[name |-> key, val |-> err[1].msg]>>

\* AnErr with the enrichment fields written without the key in front
logEventAnErrUnprefixed(e, key, err, mode) ==
  IF e.kind # "event" THEN e
  ELSE LET r == buildErrorChain(err, mode) IN
       [e EXCEPT !.fields =
          @ \o BaseErrField(key, err) \o
          (IF err # NilError /\ Len(r.chain) > 0
             THEN <<[name |-> "_chain", val |-> r.chain],
                    [name |-> "_root", val |-> r.root],
                    [name |-> "_history", val |-> joinChain(r.chain)],
                    [name |-> "_ops", val |-> r.ops]>> \o
                  (IF r.rootOp # "" THEN <<[name |-> "_root_op", val |-> r.rootOp]>>
                   ELSE <<>>)
             ELSE <<>>)]

\* internal.go 1769-1786: logEvent.AnErr
logEventAnErr(e, key, err, mode) ==
  IF e.kind # "event" THEN e
  ELSE LET r == buildErrorChain(err, mode) IN
       [e EXCEPT !.fields =
          @ \o BaseErrField(key, err) \o
          (IF err # NilError /\ Len(r.chain) > 0
             THEN <<[name |-> key \o "_chain", val |-> r.chain],
                    [name |-> key \o "_root", val |-> r.root],
                    [name |-> key \o "_history", val |-> joinChain(r.chain)],
                    [name |-> key \o "_ops", val |-> r.ops]>> \o
                  (IF r.rootOp # "" THEN <<[name |-> key \o "_root_op", val |-> r.rootOp]>>
                   ELSE <<>>)
             ELSE <<>>)]

\* internal.go 1748-1767: logEvent.Err; zerolog.ErrorFieldName is "error"
logEventErr(e, err, mode) ==
  IF e.kind # "event" THEN e
  ELSE LET r == buildErrorChain(err, mode) IN
       [e EXCEPT !.fields =
          @ \o BaseErrField("error", err) \o
          (IF err # NilError /\ Len(r.chain) > 0
             THEN <<[name |-> "error_chain", val |-> r.chain],
                    [name |-> "error_root", val |-> r.root],
                    [name |-> "error_history", val |-> joinChain(r.chain)],
                    [name |-> "error_ops", val |-> r.ops]>> \o
                  (IF r.rootOp # "" THEN <<[name |-> "error_root_op", val |-> r.rootOp]>>
                   ELSE <<>>)
             ELSE <<>>)]

\* One goroutine holds an error and an event (live or no-op), analyzes the
\* error and attaches it to the event.
InitErr ==
  /\ env \in [err : ErrInputs, mode : AsModes]
  /\ ev \in {[g \in Procs |-> IF g = "main" THEN e ELSE NilEvent] :
               e \in {LiveEvent, NoopEvent}}
  /\ isInitialized = TRUE
  /\ logger = NilLogger
  /\ configService = TRUE
  /\ loggingConfig = GoodCfg
  /\ workingDir = GoodEnv.workingDir
  /\ fileWriter = "fw"
  /\ initOnce = "done"
  /\ initErr = "nil"
  /\ muReaders = {}
  /\ muWriter = NULL
  /\ muPending = NULL
  /\ activeOps = 0
  /\ wgCount = 0
  /\ wgWaiters = {}
  /\ pc = [g \in Procs |-> "idle"]
  /\ loc = [g \in Procs |-> NoLoc]
  /\ ret = [g \in Procs |-> NoRet]
  /\ helper = [g \in Procs |-> "none"]
  /\ doneCh = [g \in Procs |-> FALSE]
  /\ timer = [g \in Procs |-> "off"]
  /\ sink = [open |-> FALSE, closeCalls |-> 0]
  /\ records = EmptyBag
  /\ hist = [attached |-> <<>>]

\* a call of buildErrorChain(err)
BuildErrorChainCall(g) ==
  /\ ret[g] = NoRet
  /\ ret' = [ret EXCEPT ![g] = [op |-> "buildErrorChain",
                               val |-> buildErrorChain(env.err, env.mode),
                               path |-> "return"]]
  /\ UNCHANGED <<env, configService, svcFields, muVars, cntVars, pc, loc, ev,
                 closeVars, sink, records, hist>>

\* e.Err(err)
EventErr(g) ==
  /\ ev[g] # NilEvent
  /\ Len(hist.attached) < MaxAttach
  /\ ev' = [ev EXCEPT ![g] = logEventErr(ev[g], env.err, env.mode)]
  /\ hist' = [hist EXCEPT !.attached = Append(@, "error")]
  /\ UNCHANGED <<env, configService, svcFields, muVars, cntVars, pc, loc, ret,
                 closeVars, sink, records>>

\* e.AnErr(key, err)
EventAnErr(g, key) ==
  /\ ev[g] # NilEvent
  /\ Len(hist.attached) < MaxAttach
  /\ ev' = [ev EXCEPT ![g] = logEventAnErr(ev[g], key, env.err, env.mode)]
  /\ hist' = [hist EXCEPT !.attached = Append(@, key)]
  /\ UNCHANGED <<env, configService, svcFields, muVars, cntVars, pc, loc, ret,
                 closeVars, sink, records>>

NextErr ==
  \E g \in Owners :
    \/ BuildErrorChainCall(g)
    \/ EventErr(g)
    \/ \E key \in ErrKeys : EventAnErr(g, key)

SpecErr == InitErr /\ [][NextErr]_vars

\* an error whose links are all DetailedErrors with a non-empty op
OpTagged(err) == \A i \in 1..Len(err) : err[i].tagged /\ err[i].op # ""

\* C13: buildErrorChain on a 3-link operation-tagged chain A(B(C)) returns
\* the three messages outermost first as chain, the three operation labels
\* in the same order as ops, C's message as root and C's label as rootOp.
C13_ThreeLinkChain ==
  \A g \in Owners :
    (ret[g].op = "buildErrorChain" /\ Len(env.err) = 3 /\ OpTagged(env.err)) =>
      /\ ret[g].val.chain = <<env.err[1].msg, env.err[2].msg, env.err[3].msg>>
      /\ ret[g].val.ops = <<env.err[1].op, env.err[2].op, env.err[3].op>>
      /\ ret[g].val.root = env.err[3].msg
      /\ ret[g].val.rootOp = env.err[3].op

\* C13 witness: the chain A(B(C)) with messages a, b, c and labels opA, opB,
\* opC has been analyzed
C13_Witness ==
  /\ env.err = <<[tagged |-> TRUE, msg |-> "a", op |-> "opA"],
                 [tagged |-> TRUE, msg |-> "b", op |-> "opB"],
                 [tagged |-> TRUE, msg |-> "c", op |-> "opC"]>>
  /\ ret["main"].op = "buildErrorChain"
  /\ ret["main"].val = [chain |-> <<"a", "b", "c">>, ops |-> <<"opA", "opB", "opC">>,
                        root |-> "c", rootOp |-> "opC"]

\* the suffixes of the enrichment fields
EnrichSuffixes == {"_chain", "_root", "_history", "_ops", "_root_op"}

\* the names of the fields of an event
FieldNames(e) == {e.fields[i].name : i \in 1..Len(e.fields)}

\* a field name occurs twice in the event
NameWrittenTwice(e) ==
  \E i, j \in 1..Len(e.fields) : i < j /\ e.fields[i].name = e.fields[j].name

\* one key is the other followed by an enrichment suffix
KeyExtends(k1, k2) == \E s \in EnrichSuffixes : k2 = k1 \o s \/ k1 = k2 \o s

\* C15 (amended): each Err(e) / AnErr(key, e) with a non-nil e on a live
\* event appends, in this order, the base field key (key "error" for Err)
\* with e's message, key_chain with the chain, key_root with the last chain
\* entry, key_history with the chain joined by " -> ", key_ops with the ops
\* (one per chain entry) and, only when the root op is non-empty,
\* key_root_op; nothing else is added.  Two attachments with different keys
\* write no common field name unless one key is the other followed by one of
\* the suffixes _chain, _root, _history, _ops, _root_op.  With a nil error,
\* or on a no-op event, no field is added.
C15_ErrEnrichment ==
  \A g \in Owners :
    LET e == ev[g]
        r == buildErrorChain(env.err, env.mode)
        per == IF r.rootOp = "" THEN 5 ELSE 6
        n == Len(hist.attached)
    IN  /\ e.kind # "event" => e = NoopEvent
        /\ (e.kind = "event" /\ env.err = NilError) => e.fields = <<>>
        /\ (e.kind = "event" /\ env.err # NilError) =>
             /\ Len(r.chain) > 0 /\ Len(r.ops) = Len(r.chain)
             /\ Len(e.fields) = per * n
             /\ \A i \in 1..n :
                  LET k == hist.attached[i]
                      o == per * (i - 1)
                  IN  /\ e.fields[o + 1] = [name |-> k, val |-> env.err[1].msg]
                      /\ e.fields[o + 2] = [name |-> k \o "_chain", val |-> r.chain]
                      /\ e.fields[o + 3] = [name |-> k \o "_root",
                                            val |-> r.chain[Len(r.chain)]]
                      /\ e.fields[o + 4] = [name |-> k \o "_history",
                                            val |-> joinChain(r.chain)]
                      /\ e.fields[o + 5] = [name |-> k \o "_ops", val |-> r.ops]
                      /\ per = 6 =>
                           e.fields[o + 6] = [name |-> k \o "_root_op",
                                              val |-> r.ops[Len(r.ops)]]
             /\ \A i, j \in 1..n :
                  (hist.attached[i] # hist.attached[j]
                     /\ ~KeyExtends(hist.attached[i], hist.attached[j])) =>
                    {e.fields[per * (i - 1) + m].name : m \in 1..per}
                      \cap {e.fields[per * (j - 1) + m].name : m \in 1..per} = {}

\* C15 witness: Err and AnErr("cause", .) of the chain A(B(C)) on one live
\* event wrote twelve fields with twelve names, error_history being
\* "a -> b -> c"
C15_Witness ==
  /\ env.err = <<[tagged |-> TRUE, msg |-> "a", op |-> "opA"],
                 [tagged |-> TRUE, msg |-> "b", op |-> "opB"],
                 [tagged |-> TRUE, msg |-> "c", op |-> "opC"]>>
  /\ hist.attached = <<"error", "cause">>
  /\ ev["main"].kind = "event"
  /\ Len(ev["main"].fields) = 12
  /\ Cardinality(FieldNames(ev["main"])) = 12
  /\ ev["main"].fields[4] = [name |-> "error_history", val |-> "a -> b -> c"]
  /\ ev["main"].fields[12] = [name |-> "cause_root_op", val |-> "opC"]

\* C15 as stated: attachments with different keys never write the same
\* field name
C15_Original ==
  \A g \in Owners :
    (ev[g].kind = "event" /\ Len(hist.attached) = 2
       /\ hist.attached[1] # hist.attached[2]) =>
      ~NameWrittenTwice(ev[g])

\* ------------------------------------------------------------------------
\* Service.Dump, dumpValue
\* ------------------------------------------------------------------------

\* the longest slice of consecutive lengths
MaxSliceLen == 12

\* dump.go 59
maxDumpDepth == 10

\* dump.go 174
maxElements == 10

\* fmt's %d of a small natural number
Digits == <<"0", "1", "2", "3", "4", "5", "6", "7", "8", "9">>
RECURSIVE Itoa(_)
Itoa(n) == IF n < 10 THEN Digits[n + 1] ELSE Itoa(n \div 10) \o Digits[(n % 10) + 1]

\* Values given to Dump.  A pointer holds an address of the heap (0 is the
\* nil pointer); a struct has a type name and fields in declaration order; a
\* slice has a type, elements and a capacity; a scalar has its %v text.
NilValue == [k |-> "nil"]
IntValue(n) == [k |-> "int", text |-> Itoa(n)]
StrValue(s) == [k |-> "string", text |-> s]
PtrValue(a) == [k |-> "ptr", addr |-> a]
Field(name, exported, val) == [name |-> name, exported |-> exported, val |-> val]
NodeValue(value, next) ==
  [k |-> "struct", type |-> "Node",
   fields |-> <<Field("Value", TRUE, IntValue(value)), Field("Next", TRUE, PtrValue(next))>>]
PersonValue ==
  [k |-> "struct", type |-> "person",
   fields |-> <<Field("Name", TRUE, StrValue("Ada")), Field("secret", FALSE, IntValue(7)),
                Field("Age", TRUE, IntValue(37))>>]
HolderValue ==
  [k |-> "struct", type |-> "Holder",
   fields |-> <<Field("ID", TRUE, IntValue(5)), Field("P", TRUE, PersonValue)>>]
SliceValue(n, cap) ==
  [k |-> "slice", type |-> "[]int", elems |-> [i \in 1..n |-> IntValue(i - 1)], cap |-> cap]

\* the heap of the inputs: n1 at address 1 and n2 at address 2 point at each
\* other, address 3 holds a person and address 4 a Holder
DumpHeap == <<NodeValue(1, 2), NodeValue(2, 1), PersonValue, HolderValue>>

SliceLens == (0..MaxSliceLen) \cup {20}

DumpInputs ==
  {NilValue, IntValue(42), PtrValue(0), PtrValue(1), NodeValue(0, 1), NodeValue(0, 0),
   PersonValue, PtrValue(3), HolderValue, PtrValue(4)}
    \cup {SliceValue(n, n) : n \in SliceLens}
    \cup {SliceValue(3, 8)}

\* the messages of dumpValue and the visited set after it
DumpOut(msgs, visited) == [msgs |-> msgs, visited |-> visited]

RECURSIVE dumpValue(_, _, _, _)
RECURSIVE dumpStructFields(_, _, _, _, _)
RECURSIVE dumpSliceElems(_, _, _, _, _)

\* the lookup in visited answering false for every address
visitedNever(visited, ptr) == FALSE

\* dump.go 93, 112: visited[ptr]
visitedHas(visited, ptr) == ptr \in visited

\* the loop over the elements without the cap of maxElements
dumpSliceElemsUncapped(elems, i, prefix, visited, depth) ==
  IF ~(i < Len(elems)) THEN DumpOut(<<>>, visited)
  ELSE LET one == dumpValue(elems[i + 1], prefix \o "[" \o Itoa(i) \o "]", visited,
                            depth + 1)
           rest == dumpSliceElems(elems, i + 1, prefix, one.visited, depth)
       IN  DumpOut(one.msgs \o rest.msgs, rest.visited)

\* dump.go 131-146: the loop over the fields of a struct, from field i on
dumpStructFields(fields, i, prefix, visited, depth) ==
  IF i > Len(fields) THEN DumpOut(<<>>, visited)
  ELSE IF ~fields[i].exported
    THEN dumpStructFields(fields, i + 1, prefix, visited, depth)
    ELSE LET fieldPrefix == IF prefix # "" THEN prefix \o "." \o fields[i].name
                            ELSE fields[i].name
             one == dumpValue(fields[i].val, fieldPrefix, visited, depth + 1)
             rest == dumpStructFields(fields, i + 1, prefix, one.visited, depth)
         IN  DumpOut(one.msgs \o rest.msgs, rest.visited)

\* dump.go 175-185: the loop over the first maxElements elements, from
\* element i (counted from 0) on
dumpSliceElems(elems, i, prefix, visited, depth) ==
  IF ~(i < Len(elems) /\ i < maxElements) THEN DumpOut(<<>>, visited)
  ELSE LET one == dumpValue(elems[i + 1], prefix \o "[" \o Itoa(i) \o "]", visited,
                            depth + 1)
           rest == dumpSliceElems(elems, i + 1, prefix, one.visited, depth)
       IN  DumpOut(one.msgs \o rest.msgs, rest.visited)

\* the depth check that stops one level early
depthExceededAtCap(depth) == depth >= maxDumpDepth

\* dump.go 63: depth > maxDumpDepth
depthExceeded(depth) == depth > maxDumpDepth

\* dump.go 62-201: dumpValue.  The value a pointer leads to is addressable
\* (reflect.Value.Elem of a pointer) and its address val.Addr().Pointer() is
\* the pointer itself; a value passed through Interface() is not addressable.
dumpValue(v, prefix, visited, depth) ==
  IF depthExceeded(depth) THEN DumpOut(<<prefix \o ": <max depth reached>">>, visited)
  ELSE IF v.k = "nil" THEN DumpOut(<<prefix \o ": <nil>">>, visited)
  ELSE IF v.k = "ptr" /\ v.addr = 0 THEN DumpOut(<<prefix \o ": <nil>">>, visited)
  ELSE IF v.k = "ptr" /\ visitedHas(visited, v.addr)
    THEN DumpOut(<<prefix \o ": <circular reference>">>, visited)
  ELSE
    LET isPtr == v.k = "ptr"
        val == IF isPtr THEN DumpHeap[v.addr] ELSE v
        visited1 == IF isPtr THEN visited \cup {v.addr} ELSE visited
        canAddr == isPtr
        addrPtr == v.addr
    IN  IF canAddr /\ visitedHas(visited1, addrPtr)
          THEN DumpOut(<<prefix \o ": <circular reference>">>, visited1)
        ELSE
          LET visited2 == IF canAddr THEN visited1 \cup {addrPtr} ELSE visited1 IN
          IF val.k = "struct"
            THEN LET header == IF prefix = "" THEN "Struct: " \o val.type
                               ELSE prefix \o ": " \o val.type \o " {"
                     body == dumpStructFields(val.fields, 1, prefix, visited2, depth)
                 IN  DumpOut(<<header>> \o body.msgs
                               \o (IF prefix # "" THEN <<prefix \o ": }">> ELSE <<>>),
                             body.visited)
          ELSE IF val.k = "slice"
            THEN LET header == prefix \o ": " \o val.type \o " (len: "
                                 \o Itoa(Len(val.elems))
                                 \o ", cap: " \o Itoa(val.cap) \o ") {"
                     body == dumpSliceElems(val.elems, 0, prefix, visited2, depth)
                 IN  DumpOut(<<header>> \o body.msgs
                               \o (IF Len(val.elems) > maxElements
                                     THEN <<prefix \o ": ... ("
                                              \o Itoa(Len(val.elems) - maxElements)
                                              \o " more elements)">>
                                     ELSE <<>>)
                               \o <<prefix \o ": }">>,
                             body.visited)
          ELSE DumpOut(<<prefix \o ": " \o val.text>>, visited2)

\* the debug messages Dump hands to the logger for v: dump.go 43-55
DumpMessages(v) ==
  IF v = NilValue THEN <<"Dump: <nil>">> ELSE dumpValue(v, "", {}, 0).msgs

\* the records of a sequence of messages that the logger lets through
RECURSIVE DumpRecords(_)
DumpRecords(msgs) ==
  IF msgs = <<>> THEN EmptyBag
  ELSE SetToBag({[kind |-> "dump", msg |-> Head(msgs)]}) (+) DumpRecords(Tail(msgs))

\* Dump on a nil *Service: dump.go 16
DumpNil(g, v) ==
  /\ pc[g] = "idle"
  /\ ret[g] = NoRet
  /\ UNCHANGED hist
  /\ ret' = [ret EXCEPT ![g] = [op |-> "Dump", val |-> <<>>, path |-> "nilReceiver",
                               input |-> v, written |-> FALSE]]
  /\ UNCHANGED <<env, configService, svcFields, muVars, cntVars, pc, loc, ev,
                 closeVars, sink, records>>

\* Dump without the first check of isInitialized
DumpCallNoCheck(g, v) ==
  /\ pc[g] = "idle"
  /\ ret[g] = NoRet
  /\ UNCHANGED hist
  /\ ret' = [ret EXCEPT ![g] = [op |-> "Dump", val |-> <<>>, path |-> "call",
                               input |-> v, written |-> FALSE]]
  /\ pc' = [pc EXCEPT ![g] = "d_inc"]
  /\ UNCHANGED <<env, configService, svcFields, muVars, cntVars, loc, ev,
                 closeVars, sink, records>>

\* dump.go 16-18: the first check of isInitialized
DumpCall(g, v) ==
  /\ pc[g] = "idle"
  /\ ret[g] = NoRet
  /\ UNCHANGED hist
  /\ ret' = [ret EXCEPT ![g] = [op |-> "Dump", val |-> <<>>,
                               path |-> IF isInitialized THEN "call" ELSE "notInitialized",
                               input |-> v, written |-> FALSE]]
  /\ pc' = [pc EXCEPT ![g] = IF isInitialized THEN "d_inc" ELSE "idle"]
  /\ UNCHANGED <<env, configService, svcFields, muVars, cntVars, loc, ev,
                 closeVars, sink, records>>

\* dump.go 21: s.activeOps.Add(1)
DumpIncrement(g) ==
  /\ pc[g] = "d_inc"
  /\ activeOps' = activeOps + 1
  /\ pc' = [pc EXCEPT ![g] = "d_wgadd"]
  /\ UNCHANGED <<env, configService, svcFields, muVars, wgCount, wgWaiters, loc,
                 ev, ret, closeVars, sink, records, hist>>

\* dump.go 22: s.wg.Add(1)
DumpWgAdd(g) ==
  /\ pc[g] = "d_wgadd"
  /\ wgCount' = wgCount + 1
  /\ pc' = [pc EXCEPT ![g] = "d_rlock"]
  /\ UNCHANGED <<env, configService, svcFields, muVars, activeOps, wgWaiters, loc,
                 ev, ret, closeVars, sink, records, hist>>

\* DumpRLock without taking the read lock
DumpRLockSkipped(g) ==
  /\ pc[g] = "d_rlock"
  /\ pc' = [pc EXCEPT ![g] = "d_recheck"]
  /\ UNCHANGED <<env, configService, svcFields, muVars, cntVars, loc,
                 ev, ret, closeVars, sink, records, hist>>

\* dump.go 29: s.mu.RLock()
DumpRLock(g) ==
  /\ pc[g] = "d_rlock"
  /\ CanRLock
  /\ muReaders' = muReaders \cup {g}
  /\ pc' = [pc EXCEPT ![g] = "d_recheck"]
  /\ UNCHANGED <<env, configService, svcFields, muWriter, muPending, cntVars, loc,
                 ev, ret, closeVars, sink, records, hist>>

\* dump.go 32-41: the re-check under the read lock and the load of the
\* logger
DumpRecheck(g) ==
  /\ pc[g] = "d_recheck"
  /\ IF ~isInitialized \/ logger = NilLogger
       THEN /\ pc' = [pc EXCEPT ![g] = "d_unlock"]
            /\ ret' = [ret EXCEPT ![g].path = "recheck"]
            /\ loc' = loc
       ELSE /\ pc' = [pc EXCEPT ![g] = "d_value"]
            /\ loc' = [loc EXCEPT ![g].lg = logger]
            /\ ret' = ret
  /\ UNCHANGED <<env, configService, svcFields, muVars, cntVars, ev, closeVars,
                 sink, records, hist>>

\* dump.go 43-55: the "Dump: <nil>" record or dumpValue; every message is a
\* debug event of the logger loaded, written when the logger's level lets
\* debug through
DumpValue(g) ==
  /\ pc[g] = "d_value"
  /\ LET msgs == DumpMessages(ret[g].input)
         written == ~LevelFiltered(loc[g].lg, "debug")
     IN  /\ ret' = [ret EXCEPT ![g].val = msgs, ![g].path = "dumped",
                               ![g].written = written]
         /\ records' = IF written THEN records (+) DumpRecords(msgs) ELSE records
         /\ sink' = IF written THEN SinkAfterWrite(loc[g].lg) ELSE sink
  /\ pc' = [pc EXCEPT ![g] = "d_unlock"]
  /\ UNCHANGED <<env, configService, svcFields, muVars, cntVars, loc, ev,
                 closeVars, hist>>

\* dump.go 33, 39, 45, 51: s.mu.RUnlock()
DumpUnlock(g) ==
  /\ pc[g] = "d_unlock"
  /\ muReaders' = muReaders \ {g}
  /\ pc' = [pc EXCEPT ![g] = "d_dec"]
  /\ UNCHANGED <<env, configService, svcFields, muWriter, muPending, cntVars, loc,
                 ev, ret, closeVars, sink, records, hist>>

\* dump.go 24: the deferred s.activeOps.Add(-1)
DumpDecrement(g) ==
  /\ pc[g] = "d_dec"
  /\ activeOps' = activeOps - 1
  /\ pc' = [pc EXCEPT ![g] = "d_done"]
  /\ UNCHANGED <<env, configService, svcFields, muVars, wgCount, wgWaiters, loc, ev,
                 ret, closeVars, sink, records, hist>>

\* dump.go 25: the deferred s.wg.Done() and the return
DumpDone(g) ==
  /\ pc[g] = "d_done"
  /\ WgDone
  /\ pc' = [pc EXCEPT ![g] = "idle"]
  /\ loc' = [loc EXCEPT ![g] = NoLoc]
  /\ UNCHANGED <<env, configService, svcFields, muVars, activeOps, ev, ret, doneCh,
                 timer, sink, records, hist>>

DumpStep(g) ==
  \/ \E v \in DumpInputs : DumpCall(g, v)
  \/ DumpIncrement(g)
  \/ DumpWgAdd(g)
  \/ DumpRLock(g)
  \/ DumpRecheck(g)
  \/ DumpValue(g)
  \/ DumpUnlock(g)
  \/ DumpDecrement(g)
  \/ DumpDone(g)

\* One goroutine makes one Dump call on the Service and another one on a nil
\* *Service, while the owner initializes and closes the Service.
NextDump ==
  \/ \E g \in Owners :
       \/ InitializeStep(g)
       \/ CloseStep(g)
  \/ \E g \in {"g1"} : DumpStep(g)
  \/ \E g \in {"g2"}, v \in {NilValue, IntValue(42)} : DumpNil(g, v)

SpecDump == Init /\ [][NextDump]_vars

\* a Dump call of g went through dumpValue (or the nil case) and handed
\* its messages to the logger
Dumped(g) == ret[g].op = "Dump" /\ ret[g].path = "dumped"

\* the inputs that lead into the cycle n1 -> n2 -> n1
CycleInputs == {PtrValue(1), PtrValue(2), NodeValue(0, 1), NodeValue(0, 2)}

\* the "<circular reference>" leaves under the prefixes of a walk through
\* the cycle
CircularLeaves ==
  {p \o ": <circular reference>" : p \in {"", "Next", "Next.Next", "Next.Next.Next"}}

\* C16: Dump of a value that leads into the 2-node pointer cycle n1.Next =
\* n2, n2.Next = n1 completes; among its messages is a "<circular
\* reference>" leaf, and there are no more messages than the headers, field
\* leaves and block ends of the three structs involved, so no node is walked
\* twice.
C16_CycleTerminates ==
  \A g \in Procs :
    (Dumped(g) /\ ret[g].input \in CycleInputs) =>
      /\ \E i \in 1..Len(ret[g].val) : ret[g].val[i] \in CircularLeaves
      /\ Len(ret[g].val) <= 9

\* C16 witness: Dump(n1) has returned on a Ready service whose logger lets
\* debug through, and the "<circular reference>" record is written
C16_Witness ==
  /\ Dumped("g1") /\ pc["g1"] = "idle"
  /\ ret["g1"].input = PtrValue(1)
  /\ ret["g1"].written
  /\ \E r \in BagToSet(records) : r.kind = "dump" /\ r.msg \in CircularLeaves
  /\ activeOps = 0 /\ wgCount = 0

\* C17: the messages of Dump for a slice of n elements are one header with
\* the type, length and capacity, then the entries of the elements 0 ..
\* min(n, 10) - 1 in index order, then, only when n > 10, one summary leaf
\* reporting n - 10 more elements, and last the line that ends the block.
C17_SliceCapped ==
  \A g \in Procs :
    (Dumped(g) /\ ret[g].input.k = "slice") =>
      LET msgs == ret[g].val
          n == Len(ret[g].input.elems)
          m == IF n < 10 THEN n ELSE 10
      IN  /\ Len(msgs) = 1 + m + (IF n > 10 THEN 1 ELSE 0) + 1
          /\ msgs[1] = ": []int (len: " \o Itoa(n) \o ", cap: "
                         \o Itoa(ret[g].input.cap) \o ") {"
          /\ \A i \in 1..m : msgs[1 + i] = "[" \o Itoa(i - 1) \o "]: " \o Itoa(i - 1)
          /\ n > 10 => msgs[m + 2] = ": ... (" \o Itoa(n - 10) \o " more elements)"
          /\ msgs[Len(msgs)] = ": }"

\* C17 witness: the 20-element slice was dumped as a header, the elements 0
\* to 9, the summary of 10 more elements and the end of the block
C17_Witness ==
  /\ Dumped("g1") /\ ret["g1"].written
  /\ ret["g1"].input = SliceValue(20, 20)
  /\ Len(ret["g1"].val) = 13
  /\ ret["g1"].val[1] = ": []int (len: 20, cap: 20) {"
  /\ ret["g1"].val[11] = "[9]: 9"
  /\ ret["g1"].val[12] = ": ... (10 more elements)"
  /\ BagCardinality(records) = 13

\* the record of Dump(nil)
NilDumpRecord == [kind |-> "dump", msg |-> "Dump: <nil>"]

\* g's Dump(nil) call has returned
NilDumpReturned(g) ==
  ret[g].op = "Dump" /\ ret[g].input = NilValue /\ pc[g] = "idle"

\* C18 (amended): Dump(nil) returns with the counters back where they were
\* and with at most one record written: exactly one "Dump: <nil>" record
\* when the service was still Ready at Dump's re-check under the read lock
\* and the logger's level lets debug records through, none otherwise.  A
\* Dump of any value that starts on a nil receiver or on a service that is
\* not Ready (zero value, failed initialization, Closed) returns at once,
\* writes no record and leaves activeOps, the WaitGroup, the lock and the
\* fields unchanged.  The counters never go below zero.
C18_DumpNilAndNotReady ==
  /\ [](/\ activeOps >= 0 /\ wgCount >= 0
        /\ \A g \in Procs :
             (NilDumpReturned(g) /\ ret[g].path # "nilReceiver") =>
               /\ Len(ret[g].val) <= 1
               /\ NumRecords("dump") = (IF ret[g].path = "dumped" /\ ret[g].written
                                          THEN 1 ELSE 0)
               /\ NumRecords("dump") = 1 => NilDumpRecord \in BagToSet(records)
               /\ g \notin muReaders)
  /\ [][\A g \in Procs :
          (ret[g] = NoRet /\ ret'[g].op = "Dump"
             /\ (~isInitialized \/ ret'[g].path = "nilReceiver")) =>
            /\ pc'[g] = "idle"
            /\ ret'[g].val = <<>>
            /\ UNCHANGED SharedState]_vars

\* C18 witness: Dump(nil) on the Ready service wrote its one record and
\* returned, the service was closed, and a Dump on the nil receiver then
\* returned without a record
C18_Witness ==
  /\ NilDumpReturned("g1") /\ ret["g1"].path = "dumped" /\ ret["g1"].written
  /\ records = SetToBag({NilDumpRecord})
  /\ hist.flips = 1 /\ ~isInitialized
  /\ ret["g2"].op = "Dump" /\ ret["g2"].path = "nilReceiver"
  /\ activeOps = 0 /\ wgCount = 0

\* C18 as stated: a Dump(nil) that started on a Ready service has written
\* exactly one "<nil>" record when it returns
C18_Original ==
  \A g \in Procs :
    (NilDumpReturned(g) /\ ret[g].path \in {"recheck", "dumped"}) =>
      NumRecords("dump") = 1

\* C19 as stated: Dump of the non-nil pointer to the person struct hands
\* over the struct's header and one leaf per exported field, the messages of
\* dumping the struct by value.
C19_PointerLikeValue ==
  \A g \in Procs :
    (Dumped(g) /\ ret[g].input = PtrValue(3)) =>
      /\ ret[g].val = <<"Struct: person", "Name: Ada", "Age: 37">>
      /\ ret[g].val = DumpMessages(PersonValue)

\* ------------------------------------------------------------------------
\* Close without a timeout
\* ------------------------------------------------------------------------

\* every begin-operation call that passed the first check has returned a
\* tracked event, and every tracked event has completed its terminal call
\* before the timer fired: the counter was at zero when the timeout elapsed
QuiescentInTime ==
  /\ ~hist.firedEarly
  /\ hist.tracked = hist.begun /\ hist.undone = 0 /\ hist.abandoned = 0
  /\ \A p \in Producers : pc[p] = "idle" /\ ev[p] = NilEvent

UndoPcs == {"b_undo", "b_undo_dec", "b_undo_done"}

\* the tracked events a goroutine holds before the deferred decrement of
\* their terminal call
HeldTracked == {g \in Procs : Tracked(g) /\ pc[g] \in {"idle", "t_dec"}}

\* C21: on a Ready service whose loaded logger is stricter than the severity
\* asked for, a begin-operation takes the undo path: it decrements the
\* counter it had incremented, returns the no-op builder and writes no
\* record, and the terminal call on that builder writes none either;
\* otherwise it returns a tracked event bound to the logger it loaded, with
\* the counters left incremented, and they stay so until the terminal call
C21_LevelFilter ==
  [][\A g \in Producers :
       /\ (pc[g] = "b_load" /\ pc'[g] # "b_load" /\ logger # NilLogger) =>
            IF LevelFiltered(logger, loc[g].level)
              THEN pc'[g] = "b_undo" /\ ev'[g] = NilEvent
              ELSE pc'[g] = "b_unlock" /\ loc'[g].lg = logger
       /\ (pc[g] \in UndoPcs /\ pc'[g] # pc[g]) =>
            /\ records' = records
            /\ pc[g] = "b_undo_dec" => activeOps' = activeOps - 1
            /\ pc[g] = "b_undo_done" =>
                 pc'[g] = "idle" /\ ev'[g] = NoopEvent /\ wgCount' = wgCount - 1
       /\ (ev[g] = NoopEvent /\ ev'[g] # NoopEvent) =>
            records' = records /\ activeOps' = activeOps /\ wgCount' = wgCount
       /\ (pc[g] = "b_unlock" /\ pc'[g] # "b_unlock") =>
            /\ ev'[g] = [kind |-> "tracked", lg |-> loc[g].lg, level |-> loc[g].level]
            /\ ~LevelFiltered(loc[g].lg, loc[g].level)
            /\ activeOps' = activeOps /\ wgCount' = wgCount
            /\ records' = records
       /\ activeOps' >= Cardinality({h \in Procs : Tracked(h)' /\ pc'[h] \in {"idle", "t_dec"}})
       /\ wgCount' >= Cardinality({h \in Procs : Tracked(h)'})]_vars

\* C21 witness: before any Close, a debug begin-operation on a service whose
\* logger admits errors only has returned the no-op builder with the counter
\* restored, and an error event of the other goroutine has been written
C21_Witness ==
  /\ hist.flips = 0 /\ isInitialized /\ logger # NilLogger
  /\ LevelFiltered(logger, "debug") /\ ~LevelFiltered(logger, "error")
  /\ hist.undone = 1 /\ hist.tracked = 1
  /\ \E g \in Producers : pc[g] = "idle" /\ ev[g] = NoopEvent
  /\ NumRecords("event") = 1
  /\ activeOps = 0

\* ------------------------------------------------------------------------
\* The guard lock around begin-operations
\* ------------------------------------------------------------------------

\* One goroutine logs through the Service and another through a context
\* logger derived from it, while the owner initializes and closes it.
NextBegin ==
  \/ \E g \in Owners :
       \/ InitializeStep(g)
       \/ CloseStep(g)
  \/ \E g \in {"g1"} :
       \/ WithStep(g)
       \/ CtxBeginStep(g)
       \/ TerminalStep(g)
  \/ \E g \in {"g2"} :
       \/ BeginStep(g)
       \/ TerminalStep(g)

\* a file logger that admits errors only: a debug begin-operation takes the
\* undo path, an error one is tracked
InitBegin == InitWith({[GoodEnv EXCEPT !.cfg.Level = "error"]}, {TRUE})

SpecBegin == InitBegin /\ [][NextBegin]_vars

\* the program points of logEventBuilder and newTrackedContextLogEvent
\* between RLock and RUnlock
BeginLockedPcs ==
  {"b_recheck", "b_load", "b_unlock", "b_undo",
   "x_recheck", "x_level", "x_unlock", "x_undo"}

\* the program points of With between RLock and RUnlock
WithLockedPcs == {"w_recheck", "w_load", "w_unlock"}

\* the program points inside a begin-operation
BeginPcs ==
  BeginLockedPcs \cup
    {"b_inc", "b_wgadd", "b_rlock", "b_undo_dec", "b_undo_done",
     "x_inc", "x_wgadd", "x_rlock", "x_undo_dec", "x_undo_done"}

\* C22: a goroutine holds the read lock of the guard only between the RLock
\* and the RUnlock inside a begin-operation (or inside With): when the
\* begin-operation has returned, with a tracked or a no-op builder, and
\* during the caller's terminal call, the goroutine holds no guard lock,
\* and the step that returns a builder leaves the lock released
C22_NoLockAfterBegin ==
  [][\A g \in Producers :
       /\ g \in muReaders' => pc'[g] \in BeginLockedPcs \cup WithLockedPcs
       /\ muWriter' # g /\ muPending' # g
       /\ (pc[g] \in BeginPcs /\ pc'[g] \notin BeginPcs) =>
            /\ ev'[g].kind \in {"tracked", "noop"}
            /\ g \notin muReaders'
       /\ pc'[g] \in {"idle", "t_dec", "t_done"} => g \notin muReaders']_vars

\* C22 witness: the service goroutine holds a tracked event and the context
\* goroutine a no-op builder returned by the undo path while the owner
\* holds the write lock of Close
C22_Witness ==
  /\ Tracked("g2") /\ pc["g2"] = "idle"
  /\ ev["g1"] = NoopEvent /\ pc["g1"] = "idle" /\ HoldsContext("g1")
  /\ hist.undone = 1
  /\ muWriter = "main" /\ muReaders = {}

\* ------------------------------------------------------------------------
\* The order of a terminal call
\* ------------------------------------------------------------------------

\* the tracked events whose terminal call has decremented activeOps
Decremented ==
  hist.tracked - hist.abandoned
    - Cardinality({g \in Procs : Tracked(g) /\ pc[g] \in {"idle", "t_dec"}})

\* Close has seen the counter at zero: its Wait has returned, or the load
\* for its warning has read 0
CloseSawZero(g) ==
  \/ helper[g] \in {"returned", "exited"}
  \/ pc[g] = "c_warn" /\ loc[g].ops = 0

SinkInputs == {NilValue, PersonValue}

\* dump.go 43-55 with a logger that drops debug events: the traversal runs,
\* every logger.Debug() is a nil event and nothing reaches the sink; with a
\* logger that lets debug through the records follow one by one (DumpEmit)
DumpTraverse(g) ==
  /\ pc[g] = "d_value"
  /\ IF LevelFiltered(loc[g].lg, "debug")
       THEN /\ ret' = [ret EXCEPT ![g].val = DumpMessages(ret[g].input),
                                  ![g].path = "dumped", ![g].written = FALSE]
            /\ pc' = [pc EXCEPT ![g] = "d_unlock"]
       ELSE /\ ret' = [ret EXCEPT ![g].written = TRUE]
            /\ pc' = [pc EXCEPT ![g] = "d_emit"]
  /\ UNCHANGED <<env, configService, svcFields, muVars, cntVars, loc, ev,
                 closeVars, sink, records, hist>>

\* one logger.Debug().Msg / Msgf of the traversal (dump.go 44, 64, 69, ...):
\* the next message of dumpValue is written through the logger loaded; after
\* the last one the traversal returns
DumpEmit(g) ==
  /\ pc[g] = "d_emit"
  /\ LET msgs == DumpMessages(ret[g].input)
         i    == Len(ret[g].val) + 1
     IN  IF i <= Len(msgs)
           THEN /\ records' = records (+) DumpRecords(<<msgs[i]>>)
                /\ sink' = SinkAfterWrite(loc[g].lg)
                /\ ret' = [ret EXCEPT ![g].val = Append(@, msgs[i])]
                /\ pc' = pc
           ELSE /\ ret' = [ret EXCEPT ![g].path = "dumped"]
                /\ pc' = [pc EXCEPT ![g] = "d_unlock"]
                /\ UNCHANGED <<sink, records>>
  /\ UNCHANGED <<env, configService, svcFields, muVars, cntVars, loc, ev,
                 closeVars, hist>>

DumpEmitStep(g) ==
  \/ \E v \in SinkInputs : DumpCall(g, v)
  \/ DumpIncrement(g)
  \/ DumpWgAdd(g)
  \/ DumpRLock(g)
  \/ DumpRecheck(g)
  \/ DumpTraverse(g)
  \/ DumpEmit(g)
  \/ DumpUnlock(g)
  \/ DumpDecrement(g)
  \/ DumpDone(g)

\* One goroutine dumps a value record by record and another logs tracked
\* events, while the owner initializes and closes the Service.
NextSink ==
  \/ \E g \in Owners :
       \/ InitializeStep(g)
       \/ CloseStep(g)
  \/ \E g \in {"g1"} : DumpEmitStep(g)
  \/ \E g \in {"g2"} :
       \/ BeginStep(g)
       \/ TerminalStep(g)

\* a file logger at debug, which writes the records of Dump, and a console
\* logger at info, which drops them and owns no file writer
SinkEnvs == {e \in LifeEnvs : e.cfg.Level \in {"debug", "info"}}

InitSink == InitWith(SinkEnvs, {TRUE})

SpecSink == InitSink /\ [][NextSink]_vars

\* the program points of Dump between RLock and RUnlock
DumpLockedPcs == {"d_recheck", "d_value", "d_emit", "d_unlock"}

\* the program points of Dump inside the traversal, after the re-check
DumpWritingPcs == {"d_value", "d_emit"}

\* the step in which Close calls fileWriter.Close() on the writer it took
ReleasesWriter(c) == pc[c] = "c_release" /\ pc'[c] = "idle" /\ loc[c].fw # NULL

\* a step that writes a record
WritesRecord == records' # records

CloseStepRacing(g) ==
  \/ CloseStep(g)
  \/ CloseUnlockReturn(g)

\* The owner and a second goroutine initialize and close the Service
\* while a third one logs tracked events.
NextClosers ==
  \/ \E g \in Owners :
       \/ InitializeStep(g)
       \/ CloseStepRacing(g)
  \/ \E g \in {"g1"} : CloseStepRacing(g)
  \/ \E g \in {"g2"} :
       \/ BeginStep(g)
       \/ TerminalStep(g)

SpecClosers == InitSink /\ [][NextClosers]_vars

\* the goroutines that call Close
Closers == Owners \cup {"g1"}

NextLife ==
  \/ \E g \in {"g1"} :
       \/ InitializeStep(g)
       \/ CloseStepRacing(g)
  \/ \E g \in Owners :
       \/ InitializeStep(g)
       \/ CloseStepRacing(g)
       \/ BeginStep(g)
       \/ TerminalStep(g)
       \/ WithStep(g)
       \/ DumpCall(g, NilValue)
       \/ DumpIncrement(g)
       \/ DumpWgAdd(g)
       \/ DumpRLock(g)
       \/ DumpRecheck(g)
       \/ DumpValue(g)
       \/ DumpUnlock(g)
       \/ DumpDecrement(g)
       \/ DumpDone(g)

InitLife == InitWith({GoodEnv}, {TRUE})

SpecLife == InitLife /\ [][NextLife]_vars

\* the lifecycle state: Ready while isInitialized is set, Closed once Close
\* has flipped it, Uninitialized before
Lifecycle ==
  IF isInitialized THEN "Ready"
  ELSE IF hist.flips > 0 THEN "Closed" ELSE "Uninitialized"

\* C26: the lifecycle moves from Uninitialized to Ready and from Ready to
\* Closed only; Close flips at most once and a logger is published at most
\* once; once Closed the Service stays Closed and the logger field, cleared
\* by the Close that flipped, is not stored again, whatever Initialize,
\* Close, begin-operation, With and Dump calls follow and whatever the
\* release of the file writer returned
C26_LifecycleForward ==
  [][/\ Lifecycle' # Lifecycle =>
          \/ Lifecycle = "Uninitialized" /\ Lifecycle' = "Ready"
          \/ Lifecycle = "Ready" /\ Lifecycle' = "Closed"
     /\ hist'.flips <= 1 /\ hist'.published <= 1 /\ hist'.bodyRuns <= 1
     /\ Lifecycle = "Closed" =>
          /\ ~isInitialized'
          /\ logger' \in {logger, NilLogger}
          /\ (\A c \in Closers : pc[c] # "c_clear") => logger = NilLogger]_vars

\* C26 witness: the Close that flipped has returned the error of the file
\* writer's Close, the Initialize of the other goroutine has returned nil,
\* the owner holds the no-op builder of a begin-operation after an event
\* was tracked, and the Service is Closed with no logger
C26_Witness ==
  /\ Lifecycle = "Closed" /\ logger = NilLogger /\ hist.flips = 1
  /\ \E c \in Closers :
       /\ ret[c] = [op |-> "Close", val |-> "errFileWriterClose", path |-> "full"]
       /\ \E d \in Closers \ {c} :
            /\ ret[d].op = "Initialize" /\ ret[d].val = "nil" /\ pc[d] = "idle"
            /\ ret[d].path = "once"
  /\ \E g \in Owners : ev[g] = NoopEvent
  /\ hist.tracked >= 1

\* ------------------------------------------------------------------------
\* Dump and the begin/end protocol
\* ------------------------------------------------------------------------

\* the program points of Dump between activeOps.Add(1) and the deferred
\* activeOps.Add(-1)
DumpCountedPcs == {"d_wgadd", "d_rlock"} \cup DumpLockedPcs \cup {"d_dec"}

DumpPcs == {"d_inc", "d_done"} \cup DumpCountedPcs

\* the goroutine that calls Dump
Dumpers == {"g1"}

\* C27: Dump increments activeOps before it takes the read lock, re-checks
\* Ready under the lock, and on every path unlocks, then decrements
\* activeOps once, then calls wg.Done() and returns; it holds the read lock
\* from the re-check to the last record, so while a Dump is in its
\* traversal the Service is Ready, the logger is the one it loaded and the
\* file writer is not released: the flip of Close happens with no Dump
\* between RLock and RUnlock, and a Dump that has returned has written
\* every record of its traversal
C27_DumpProtocol ==
  [][/\ activeOps' >= Cardinality({h \in Procs : pc'[h] \in DumpCountedPcs})
     /\ \A g \in Dumpers :
       /\ (pc[g] = "d_inc" /\ pc'[g] # "d_inc") =>
            /\ activeOps' = activeOps + 1 /\ pc'[g] = "d_wgadd"
            /\ g \notin muReaders
       /\ (pc[g] = "d_rlock" /\ pc'[g] # "d_rlock") =>
            pc'[g] = "d_recheck" /\ g \in muReaders' /\ activeOps' = activeOps
       /\ (pc[g] = "d_recheck" /\ pc'[g] # "d_recheck") =>
            /\ g \in muReaders
            /\ IF isInitialized /\ logger # NilLogger
                 THEN pc'[g] = "d_value" /\ loc'[g].lg = logger
                 ELSE pc'[g] = "d_unlock" /\ records' = records
       /\ pc'[g] \in DumpLockedPcs => g \in muReaders'
       /\ pc'[g] \in DumpPcs \ DumpLockedPcs => g \notin muReaders'
       /\ pc'[g] \in DumpWritingPcs =>
            /\ isInitialized' /\ logger' = loc'[g].lg /\ hist'.flips = 0
            /\ sink'.closeCalls = 0 /\ fileWriter' = fileWriter
       /\ (pc[g] = "d_unlock" /\ pc'[g] # "d_unlock") =>
            pc'[g] = "d_dec" /\ activeOps' = activeOps
       /\ (pc[g] = "d_dec" /\ pc'[g] # "d_dec") =>
            pc'[g] = "d_done" /\ activeOps' = activeOps - 1
       /\ (pc[g] \in DumpPcs /\ pc'[g] = "idle") =>
            /\ pc[g] = "d_done" /\ wgCount' = wgCount - 1
            /\ (ret[g].path = "dumped" /\ ret[g].written) =>
                 /\ ret[g].val = DumpMessages(ret[g].input)
                 /\ NumRecords("dump") = Len(ret[g].val)
       /\ (hist'.flips # hist.flips \/ logger' # logger) =>
            pc[g] \notin DumpLockedPcs]_vars

\* C27 witness: Close has announced its Lock and waits for the read lock of
\* a Dump that has written some of the records of its traversal and not yet
\* all of them
C27_Witness ==
  /\ pc["main"] = "c_lock_acq" /\ muPending = "main"
  /\ pc["g1"] = "d_emit" /\ "g1" \in muReaders
  /\ Len(ret["g1"].val) >= 1
  /\ Len(ret["g1"].val) < Len(DumpMessages(ret["g1"].input))
  /\ NumRecords("dump") = Len(ret["g1"].val)
  /\ isInitialized /\ activeOps >= 1

\* ------------------------------------------------------------------------
\* The shape of buildErrorChain's result
\* ------------------------------------------------------------------------

\* the entry of ops for a link: the op of a DetailedError, "" for an error
\* of another type
LinkLabel(link) == IF link.tagged THEN link.op ELSE ""

\* C28: chain and ops returned by buildErrorChain have the same length and
\* entry i of both comes from one link of the error, later entries from
\* later links: chain[i] is its message and ops[i] its label, "" for a
\* generic link; root is the last entry of chain and rootOp the last entry
\* of ops, and both are "" when the lists are empty
C28_ChainOpsAligned ==
  \A g \in Owners :
    ret[g].op = "buildErrorChain" =>
      LET r == ret[g].val
          n == Len(r.chain)
      IN  /\ Len(r.ops) = n
          /\ \E pos \in [1..n -> 1..Len(env.err)] :
               /\ \A i, j \in 1..n : i < j => pos[i] < pos[j]
               /\ \A i \in 1..n : /\ r.chain[i] = env.err[pos[i]].msg
                                  /\ r.ops[i] = LinkLabel(env.err[pos[i]])
          /\ r.root = (IF n > 0 THEN r.chain[n] ELSE "")
          /\ r.rootOp = (IF n > 0 THEN r.ops[n] ELSE "")
          /\ env.err = NilError => n = 0 /\ r.root = "" /\ r.rootOp = ""

\* C28 witness: a DetailedError wrapping a generic error wrapping a
\* DetailedError without op has been analyzed link by link
C28_Witness ==
  /\ env.err = <<[tagged |-> TRUE, msg |-> "a", op |-> "opA"],
                 [tagged |-> FALSE, msg |-> "w", op |-> ""],
                 [tagged |-> TRUE, msg |-> "c", op |-> "opC"]>>
  /\ env.mode = "assert"
  /\ ret["main"].op = "buildErrorChain"
  /\ ret["main"].val = [chain |-> <<"a", "w", "c">>, ops |-> <<"opA", "", "opC">>,
                        root |-> "c", rootOp |-> "opC"]

\* ------------------------------------------------------------------------
\* The depth cap of dumpValue
\* ------------------------------------------------------------------------

\* the deepest nesting of an input and the largest depth dumpValue is
\* called with
MaxNest == 13
MaxStartDepth == 12

\* n structs (or n one-element slices) around the integer 7
RECURSIVE NestValue(_, _)
NestValue(kind, n) ==
  IF n = 0 THEN IntValue(7)
  ELSE IF kind = "struct"
    THEN [k |-> "struct", type |-> "Nest",
          fields |-> <<Field("In", TRUE, NestValue(kind, n - 1))>>]
    ELSE [k |-> "slice", type |-> "[]interface {}",
          elems |-> <<NestValue(kind, n - 1)>>, cap |-> 1]

NestKinds == {"struct", "slice"}

InitDepth ==
  /\ env \in [kind : NestKinds, nest : 0..MaxNest, depth : 0..MaxStartDepth]
  /\ ev = [g \in Procs |-> NilEvent]
  /\ isInitialized = TRUE
  /\ logger = [level |-> "debug", id |-> 1, toFile |-> TRUE, toConsole |-> FALSE]
  /\ configService = TRUE
  /\ loggingConfig = GoodCfg
  /\ workingDir = GoodEnv.workingDir
  /\ fileWriter = "fw"
  /\ initOnce = "done"
  /\ initErr = "nil"
  /\ muReaders = {}
  /\ muWriter = NULL
  /\ muPending = NULL
  /\ activeOps = 0
  /\ wgCount = 0
  /\ wgWaiters = {}
  /\ pc = [g \in Procs |-> "idle"]
  /\ loc = [g \in Procs |-> NoLoc]
  /\ ret = [g \in Procs |-> NoRet]
  /\ helper = [g \in Procs |-> "none"]
  /\ doneCh = [g \in Procs |-> FALSE]
  /\ timer = [g \in Procs |-> "off"]
  /\ sink = [open |-> FALSE, closeCalls |-> 0]
  /\ records = EmptyBag
  /\ hist = [calls |-> 0]

\* a call s.dumpValue(logger, v, "", visited, depth) with an empty visited
\* map: every message is a debug event of the logger
DumpValueCall(g) ==
  /\ ret[g] = NoRet
  /\ LET out == dumpValue(NestValue(env.kind, env.nest), "", {}, env.depth) IN
       /\ ret' = [ret EXCEPT ![g] = [op |-> "dumpValue", val |-> out.msgs,
                                    path |-> "return"]]
       /\ records' = DumpRecords(out.msgs)
       /\ sink' = SinkAfterWrite(logger)
  /\ hist' = [hist EXCEPT !.calls = @ + 1]
  /\ UNCHANGED <<env, configService, svcFields, muVars, cntVars, pc, loc, ev,
                 closeVars>>

NextDepth == \E g \in Owners : DumpValueCall(g)

SpecDepth == InitDepth /\ [][NextDepth]_vars

\* the prefix of the value n levels down: "In.In" for structs, "[0][0]" for
\* slices
RECURSIVE NestPrefix(_, _)
NestPrefix(kind, n) ==
  IF n = 0 THEN ""
  ELSE IF kind = "struct"
    THEN (IF n = 1 THEN "In" ELSE NestPrefix(kind, n - 1) \o ".In")
    ELSE NestPrefix(kind, n - 1) \o "[0]"

\* the messages that are "<max depth reached>" leaves
MaxDepthLeaves(msgs) ==
  {i \in 1..Len(msgs) :
     \E n \in 0..MaxNest, kind \in NestKinds :
       msgs[i] = NestPrefix(kind, n) \o ": <max depth reached>"}

\* the levels of the input dumpValue may describe when it starts at depth d
LevelsAllowed(d) == IF d > maxDumpDepth THEN 0 ELSE maxDumpDepth - d + 1

\* C30: dumpValue called at a depth above maxDumpDepth emits the single
\* leaf "<max depth reached>" and nothing else; called at depth d on a value
\* nested n levels deep it describes the levels that lie at depth
\* maxDumpDepth or less, emits one "<max depth reached>" leaf in place of
\* the first level below the cap and nothing for the levels under it, and
\* emits no such leaf when the whole value lies within the cap; the
\* innermost integer is described exactly when it lies within the cap
C30_DepthCapped ==
  \A g \in Owners :
    ret[g].op = "dumpValue" =>
      LET msgs   == ret[g].val
          n      == env.nest
          d      == env.depth
          levels == LevelsAllowed(d)
          cut    == n >= levels
          leaf   == NestPrefix(env.kind, IF cut THEN levels ELSE n)
                      \o (IF cut THEN ": <max depth reached>" ELSE ": 7")
      IN  /\ d > maxDumpDepth => msgs = <<": <max depth reached>">>
          /\ Cardinality(MaxDepthLeaves(msgs)) = (IF cut THEN 1 ELSE 0)
          /\ \E i \in 1..Len(msgs) : msgs[i] = leaf
          /\ \A i \in 1..Len(msgs) :
               \A m \in 0..MaxNest : msgs[i] = NestPrefix(env.kind, m) \o ": 7" => ~cut /\ m = n
          /\ Len(msgs) <= 2 * (IF cut THEN levels ELSE n) + 1
          /\ NumRecords("dump") = Len(msgs)

\* C30 witness: a struct nested 12 levels deep was dumped from depth 0: the
\* levels at depth 0 to 10 are described and the level at depth 11 is the
\* "<max depth reached>" leaf
C30_Witness ==
  /\ env = [kind |-> "struct", nest |-> 12, depth |-> 0]
  /\ ret["main"].op = "dumpValue"
  /\ Len(ret["main"].val) = 22
  /\ ret["main"].val[1] = "Struct: Nest"
  /\ ret["main"].val[11] = "In.In.In.In.In.In.In.In.In.In: Nest {"
  /\ ret["main"].val[12] = "In.In.In.In.In.In.In.In.In.In.In: <max depth reached>"
  /\ ret["main"].val[13] = "In.In.In.In.In.In.In.In.In.In: }"

\* ------------------------------------------------------------------------
\* newTrackedLogEvent with a nil event (event.go; the calls of
\* TestNewTrackedLogEventWithNilEventOnly and TestWaitGroupLeakWithNilEvent)
\* ------------------------------------------------------------------------

\* the caller is about to count an operation by hand, as logEventBuilder
\* does before it builds the event
TrackedNilBegin(g) ==
  /\ pc[g] = "idle" /\ ev[g] = NilEvent
  /\ isInitialized
  /\ hist.begun < MaxBegin
  /\ hist' = [hist EXCEPT !.begun = @ + 1]
  /\ pc' = [pc EXCEPT ![g] = "n_inc"]
  /\ UNCHANGED <<env, configService, svcFields, muVars, cntVars, loc, ev, ret,
                 closeVars, sink, records>>

\* service.activeOps.Add(1)
TrackedNilIncrement(g) ==
  /\ pc[g] = "n_inc"
  /\ activeOps' = activeOps + 1
  /\ pc' = [pc EXCEPT ![g] = "n_wgadd"]
  /\ UNCHANGED <<env, configService, svcFields, muVars, wgCount, wgWaiters, loc,
                 ev, ret, closeVars, sink, records, hist>>

\* service.wg.Add(1)
TrackedNilWgAdd(g) ==
  /\ pc[g] = "n_wgadd"
  /\ wgCount' = wgCount + 1
  /\ pc' = [pc EXCEPT ![g] = "n_call"]
  /\ UNCHANGED <<env, configService, svcFields, muVars, activeOps, wgWaiters, loc,
                 ev, ret, closeVars, sink, records, hist>>

\* event := newTrackedLogEvent(nil, service): the function returns the
\* no-op builder and touches neither activeOps nor the WaitGroup
TrackedNilCall(g) ==
  /\ pc[g] = "n_call"
  /\ ev' = [ev EXCEPT ![g] = newTrackedLogEvent(TRUE, FALSE, NilLogger, "nolevel")]
  /\ pc' = [pc EXCEPT ![g] = "idle"]
  /\ UNCHANGED <<env, configService, svcFields, muVars, cntVars, loc, ret,
                 closeVars, sink, records, hist>>

\* The owner initializes and closes the Service, one goroutine counts an
\* operation and passes a nil event to newTrackedLogEvent, another one
\* logs tracked events.
NextNilEvent ==
  \/ \E g \in Owners :
       \/ InitializeStep(g)
       \/ CloseStep(g)
  \/ \E g \in {"g1"} :
       \/ TrackedNilBegin(g)
       \/ TrackedNilIncrement(g)
       \/ TrackedNilWgAdd(g)
       \/ TrackedNilCall(g)
       \/ TerminalNoop(g)
  \/ \E g \in {"g2"} :
       \/ BeginStep(g)
       \/ TerminalStep(g)

SpecNilEvent == InitLife /\ [][NextNilEvent]_vars

\* C31: newTrackedLogEvent called with a nil event and a non-nil service,
\* after the caller has counted the operation, gives the count back
\* (activeOps and the WaitGroup) and returns the no-op builder
C31_NilEventReleasesCounter ==
  [][\A g \in {"g1"} :
       (pc[g] = "n_call" /\ pc'[g] = "idle")
         => /\ ev'[g] = NoopEvent
            /\ activeOps' = activeOps - 1
            /\ wgCount' = wgCount - 1]_vars

\* ------------------------------------------------------------------------
\* The flag and the published logger
\* ------------------------------------------------------------------------

\* C32: in every reachable state an initialized flag that reads true comes
\* with a published logger that is not nil (Initialize stores the logger
\* before the flag, Close clears the flag before the logger)
C32_FlagImpliesLogger == isInitialized => logger # NilLogger

\* the flag reads true and the logger is published while a Close holds the
\* write lock and is about to clear the flag, and another goroutine is
\* inside a begin-operation
C32_Witness ==
  /\ \E c \in Closers : pc[c] = "c_flag"
  /\ isInitialized
  /\ logger # NilLogger
  /\ hist.published = 1
  /\ \E g \in Producers : pc[g] \in {"b_rlock", "b_wgadd"}

\* ------------------------------------------------------------------------
\* Context fields: logContext.Str .. Interface, logContext.Logger
\* ------------------------------------------------------------------------

\* fields added to one context
MaxCtxFields == MaxCtxDepth

\* the context fields a logger carries (zerolog's Logger.context): none on
\* the logger Initialize builds
CtxOf(lg) == IF "ctx" \in DOMAIN lg THEN lg.ctx ELSE <<>>

\* zerolog's Context.Str(key, val) and Context.Logger(): a logger value of
\* its own that carries the fields of the one it was derived from and the
\* new field
WithField(lg, key) == [ctx |-> Append(CtxOf(lg), key)] @@ lg

\* the key of the fields of the model
CtxKey == "request_id"

\* CtxField with the derived logger stored in the parent's pointer as well
CtxFieldPublished(g) ==
  /\ pc[g] = "idle"
  /\ HoldsContext(g)
  /\ Len(CtxOf(ret[g].lg)) < MaxCtxFields
  /\ ret' = [ret EXCEPT ![g].lg = WithField(@, CtxKey)]
  /\ logger' = IF logger = NilLogger THEN logger
               ELSE WithField(ret[g].lg, CtxKey)
  /\ UNCHANGED <<env, configService, loggingConfig, workingDir, fileWriter,
                 isInitialized, initOnce, initErr, muVars, cntVars, pc, loc, ev,
                 closeVars, sink, records, hist>>

\* logContext.Str(key, val): c.context = c.context.Str(key, val); the
\* contextLogger that Logger() returns wraps the logger of the context
CtxField(g) ==
  /\ pc[g] = "idle"
  /\ HoldsContext(g)
  /\ Len(CtxOf(ret[g].lg)) < MaxCtxFields
  /\ ret' = [ret EXCEPT ![g].lg = WithField(@, CtxKey)]
  /\ UNCHANGED <<env, configService, svcFields, muVars, cntVars, pc, loc, ev,
                 closeVars, sink, records, hist>>

\* trackedLogEvent.Msg with the record in full: the goroutine that logged
\* it and the context fields of the logger the event was begun on
TerminalWriteFields(g) ==
  /\ pc[g] = "idle"
  /\ Tracked(g)
  /\ records' = records (+) SetToBag({[by |-> g, ctx |-> CtxOf(ev[g].lg)]
                                        @@ EventRecord(ev[g])})
  /\ sink' = SinkAfterWrite(ev[g].lg)
  /\ pc' = [pc EXCEPT ![g] = "t_dec"]
  /\ UNCHANGED <<env, configService, svcFields, muVars, cntVars, loc, ev, ret,
                 closeVars, hist>>

TerminalFieldsStep(g) ==
  \/ TerminalNoop(g)
  \/ TerminalWriteFields(g)
  \/ TerminalDecrement(g)
  \/ TerminalDone(g)

\* the begin-operation of the context-field runs: ErrorWith()
FieldsLevel == "error"

\* ErrorWith() on the Service
BeginFieldsStep(g) ==
  \/ BeginCall(g, FieldsLevel)
  \/ BeginIncrement(g)
  \/ BeginWgAdd(g)
  \/ BeginRLock(g)
  \/ BeginRecheck(g)
  \/ BeginLoad(g)
  \/ BeginReturnTracked(g)

\* ErrorWith() on a context logger
CtxBeginFieldsStep(g) ==
  \/ CtxBeginNoop(g)
  \/ CtxBeginCall(g, FieldsLevel)
  \/ CtxBeginIncrement(g)
  \/ CtxBeginWgAdd(g)
  \/ CtxBeginRLock(g)
  \/ CtxBeginRecheck(g)
  \/ CtxBeginLevel(g)
  \/ CtxBeginReturnTracked(g)
  \/ CtxBeginUndoUnlock(g)
  \/ CtxBeginUndoDecrement(g)
  \/ CtxBeginUndoDone(g)

\* The owner initializes the Service, logs through the Service itself and
\* closes it; another goroutine derives context loggers, adds fields to
\* them and logs through them only.
NextFields ==
  \/ \E g \in Owners :
       \/ InitializeStep(g)
       \/ CloseStep(g)
       \/ BeginFieldsStep(g)
       \/ TerminalFieldsStep(g)
  \/ \E g \in {"g1"} :
       \/ WithStep(g)
       \/ CtxWithStep(g)
       \/ CtxField(g)
       \/ CtxBeginFieldsStep(g)
       \/ TerminalFieldsStep(g)

SpecFields == InitLife /\ [][NextFields]_vars

\* C33: the published logger pointer is written by Initialize's single
\* publish and by Close clearing it, and by nothing else (the current
\* Service has no Hook); no step of a goroutine that creates context
\* loggers through With()...Logger(), at any nesting depth, adds fields to
\* them and logs through them changes the pointer, the published logger
\* carries no context field, and no record logged directly through the
\* parent carries a field that was added to a context logger
C33_ContextLeavesParent ==
  /\ [](\A r \in BagToSet(records) :
          (r.kind = "event" /\ r.by \in Owners) => r.ctx = <<>>)
  /\ [](logger # NilLogger => CtxOf(logger) = <<>>)
  /\ [][/\ logger' # logger =>
             \/ \E g \in Owners : /\ pc[g] = "init_store" /\ pc'[g] = "init_flag"
                                  /\ hist.published = 0
             \/ \E g \in Owners : /\ pc[g] = "c_clear" /\ pc'[g] = "c_unlock"
                                  /\ logger' = NilLogger
        /\ \A g \in {"g1"} :
             (ret'[g] # ret[g] \/ ev'[g] # ev[g] \/ pc'[g] # pc[g])
               => logger' = logger]_vars

\* C33 witness: a context logger of nesting depth 2 carries two fields and
\* has logged a record with both; the owner has just written a record
\* through the Service itself, which carries none, and the published logger
\* is the one Initialize stored
C33_Witness ==
  /\ HoldsContext("g1") /\ ret["g1"].depth = 2
  /\ CtxOf(ret["g1"].lg) = <<CtxKey, CtxKey>>
  /\ \E r \in BagToSet(records) :
       r.kind = "event" /\ r.by = "g1" /\ r.ctx = <<CtxKey, CtxKey>>
  /\ \E r \in BagToSet(records) :
       r.kind = "event" /\ r.by = "main" /\ r.ctx = <<>>
  /\ pc["main"] = "t_dec"
  /\ logger # NilLogger /\ CtxOf(logger) = <<>>

\* ------------------------------------------------------------------------
\* The sign of the in-flight counter
\* ------------------------------------------------------------------------

\* C34: with at most one terminal call per tracked event, activeOps is
\* never negative in any reachable state: while begin-operations and
\* terminal calls are in progress, during Close and after it
C34_CounterNonNegative == activeOps >= 0

\* C34 witness: Close has returned after the timeout cut its wait short;
\* one tracked event was dropped and still counts, another one has made its
\* terminal call after the flip and is past its decrement
C34_Witness ==
  /\ ret["main"].op = "Close" /\ pc["main"] = "idle"
  /\ hist.abandoned = 1
  /\ \E g \in Producers : pc[g] = "t_done"
  /\ \E r \in BagToSet(records) : r.kind = "event" /\ r.afterFlip
  /\ activeOps = 1

\* ------------------------------------------------------------------------
\* Increments after the flip
\* ------------------------------------------------------------------------

\* C35: after Close has flipped the state to Closed no goroutine
\* increments activeOps or calls wg.Add any more, so a counter that Close's
\* wait observed at zero stays at zero
C35_NoIncrementAfterFlip ==
  [][hist.flips > 0 => (activeOps' <= activeOps /\ wgCount' <= wgCount)]_vars

\* ------------------------------------------------------------------------
\* Progress of every call
\* ------------------------------------------------------------------------

\* the steps inside a Dump call and inside a With call that have started
DumpProgress(g) ==
  \/ DumpIncrement(g)
  \/ DumpWgAdd(g)
  \/ DumpRLock(g)
  \/ DumpRecheck(g)
  \/ DumpValue(g)
  \/ DumpUnlock(g)
  \/ DumpDecrement(g)
  \/ DumpDone(g)

WithProgress(g) ==
  \/ WithRLock(g)
  \/ WithRecheck(g)
  \/ WithLoad(g)
  \/ WithReturn(g)

\* The owner initializes and closes the Service while one goroutine logs
\* tracked events and another one derives contexts and dumps a value.
NextLive ==
  \/ \E g \in Owners :
       \/ InitializeStep(g)
       \/ CloseStep(g)
  \/ \E g \in {"g1"} :
       \/ BeginCall(g, FieldsLevel)
       \/ BeginProgress(g)
       \/ TerminalNoop(g)
       \/ TerminalWrite(g)
       \/ TerminalProgress(g)
  \/ \E g \in {"g2"} :
       \/ DumpCall(g, NilValue)
       \/ DumpProgress(g)
       \/ WithCall(g)
       \/ WithProgress(g)

SpecLive == InitLife /\ [][NextLive]_vars

\* Every runnable goroutine is scheduled and a running timer fires: the
\* steps inside a call that has started are taken; starting a call, and
\* the terminal call on a held event, are left to the caller.
FairLive ==
  /\ SpecLive
  /\ \A g \in Owners : WF_vars(CloseProgress(g) \/ InitializeProgress(g))
  /\ \A g \in {"g1"} : WF_vars(BeginProgress(g) \/ TerminalProgress(g))
  /\ \A g \in {"g2"} : WF_vars(DumpProgress(g) \/ WithProgress(g))

\* the goroutine holds the guard lock, shared or exclusive
HoldsLock(g) == g \in muReaders \/ muWriter = g

\* the goroutine is inside Close's wait for the counter: between the
\* start of the helper goroutine and the return of the select
WaitsOnCounter(g) == pc[g] = "c_select"

\* the next step of the call the goroutine is in can be taken now
CanStep(g) ==
  ENABLED (CloseProgress(g) \/ InitializeProgress(g) \/ BeginProgress(g)
             \/ TerminalProgress(g) \/ DumpProgress(g) \/ WithProgress(g))

\* C36: under fair scheduling every call that has started returns (begin-
\* operation, terminal call, Dump, With, Initialize and Close, also with
\* an event that never has its terminal call); no goroutine holds the guard
\* lock while it waits on the counter, and a goroutine that holds the guard
\* lock is never blocked: its next step does not depend on another
\* goroutine
C36_EveryCallReturns ==
  /\ \A g \in Procs : []<>(pc[g] = "idle")
  /\ [](\A g \in Procs : WaitsOnCounter(g) => ~HoldsLock(g))
  /\ [](\A g \in Procs : HoldsLock(g) => CanStep(g))

\* C36 witness: Close waits on the counter, its helper goroutine blocked
\* in wg.Wait() and the timer running, while the producer is inside its
\* terminal call and the third goroutine waits for the read lock in Dump
\* with the lock free
C36_Witness ==
  /\ pc["main"] = "c_select" /\ helper["main"] = "blocked"
  /\ timer["main"] = "running"
  /\ pc["g1"] = "t_dec"
  /\ pc["g2"] = "d_rlock"
  /\ muWriter = NULL /\ muReaders = {}

\* ------------------------------------------------------------------------
\* Concurrent Close calls
\* ------------------------------------------------------------------------

\* the positions of a Close between the release of the write lock after the
\* flip and its return: waiting for the counter, warning, releasing the
\* file writer
CloseShutdownPcs ==
  {"c_wait", "c_select", "c_warn_load", "c_warn", "c_lock2", "c_lock2_acq",
   "c_unlock2", "c_release"}

\* the step in which a Close that passed the first check on a Ready
\* Service returns: from the re-check under the lock, or at the end
CloseOnReadyReturns(c) ==
  pc[c] \in {"c_unlock_ret", "c_release"} /\ pc'[c] = "idle"

\* C37 as stated: with concurrent Close calls on a Ready Service every
\* call returns only after the wait is over and the file writer has been
\* released, and none returns while another one is still waiting or
\* releasing
C37_Original ==
  [][\A c \in Closers :
       CloseOnReadyReturns(c) =>
         /\ fileWriter = NULL
         /\ hist.fwCreated > 0 => sink'.closeCalls > 0
         /\ \A d \in Closers \ {c} : pc[d] \notin CloseShutdownPcs]_vars

\* C37 (amended): of the concurrent Close calls on a Ready Service exactly
\* one flips the state; that call returns only after its wait for the
\* counter ended, by the helper goroutine's signal or by the timer, and
\* after it released the file writer it took. Every other call returns nil
\* from the re-check under the lock, after the flip, without waiting and
\* without touching the file writer.
C37_OneCloseShutsDown ==
  [][/\ hist'.flips <= 1
     /\ Cardinality({c \in Closers : pc'[c] \in CloseShutdownPcs}) <= 1
     /\ \A c \in Closers :
          /\ CloseReturns(c) =>
               /\ IF loc[c].timedOut THEN timer[c] = "fired" ELSE doneCh[c]
               /\ fileWriter = NULL
               /\ loc[c].fw # NULL => sink'.closeCalls = 1
               /\ ret'[c].path = "full"
          /\ (pc[c] = "c_unlock_ret" /\ pc'[c] = "idle") =>
               /\ hist.flips = 1 /\ ~isInitialized
               /\ ret'[c] = [op |-> "Close", val |-> "nil", path |-> "recheck"]
               /\ sink' = sink /\ fileWriter' = fileWriter
               /\ helper[c] = "none" /\ timer[c] = "off"]_vars

\* C37 witness: one Close has returned from the re-check while the other
\* one, which flipped, is still waiting on a counter that is not zero, with
\* the file writer not yet released
C37_Witness ==
  /\ \E c \in Closers : ret[c].op = "Close" /\ ret[c].path = "recheck" /\ pc[c] = "idle"
  /\ \E d \in Closers : pc[d] = "c_select" /\ helper[d] = "blocked"
  /\ fileWriter # NULL /\ sink.closeCalls = 0
  /\ activeOps > 0

\* ------------------------------------------------------------------------
\* The helper goroutine of Close
\* ------------------------------------------------------------------------

\* C40: the goroutine Close starts to wait on the WaitGroup terminates in
\* every execution, also when Close returns through the timer branch
\* because an operation never had its terminal call
C40_HelperTerminates ==
  \A g \in Owners : (helper[g] = "started") ~> (helper[g] = "exited")

\* ------------------------------------------------------------------------
\* The "<circular reference>" marker
\* ------------------------------------------------------------------------

\* the addresses reached from a value by following its pointers, in the
\* order of the walk, each chain of pointers followed for at most fuel hops
RECURSIVE PointerTargets(_, _)
RECURSIVE PointerTargetsOf(_, _, _)
PointerTargets(v, fuel) ==
  IF v.k = "ptr"
    THEN IF v.addr = 0 \/ fuel = 0 THEN <<>>
         ELSE <<v.addr>> \o PointerTargets(DumpHeap[v.addr], fuel - 1)
  ELSE IF v.k = "struct"
    THEN PointerTargetsOf([i \in 1..Len(v.fields) |-> v.fields[i].val], 1, fuel)
  ELSE IF v.k = "slice" THEN PointerTargetsOf(v.elems, 1, fuel)
  ELSE <<>>

PointerTargetsOf(vals, i, fuel) ==
  IF i > Len(vals) THEN <<>>
  ELSE PointerTargets(vals[i], fuel) \o PointerTargetsOf(vals, i + 1, fuel)

\* no pointer target is reachable more than once from the value: it is
\* acyclic and nothing in it is shared
Unshared(v) ==
  LET t == PointerTargets(v, Len(DumpHeap) + 1)
  IN  \A i, j \in 1..Len(t) : t[i] = t[j] => i = j

\* C38: within one Dump call a value in which no pointer target is
\* reachable more than once produces no "<circular reference>" leaf: the
\* marker is emitted only for a value that was visited earlier in the call
C38_MarkerOnlyOnRevisit ==
  \A g \in Procs :
    (Dumped(g) /\ Unshared(ret[g].input)) =>
      \A i \in 1..Len(ret[g].val) : ret[g].val[i] \notin CircularLeaves

\* ------------------------------------------------------------------------
\* One chain entry per link
\* ------------------------------------------------------------------------

\* every generic link of the error comes after its last DetailedError: the
\* walk meets the same links whichever way AsDetailedError looks for one
GenericLinksLast(err) ==
  \A i, j \in 1..Len(err) : (~err[i].tagged /\ err[j].tagged) => j < i

\* the generic link at position i repeats the message of a generic link
\* above it
RepeatsGeneric(err, i) ==
  /\ ~err[i].tagged
  /\ \E j \in 1..(i - 1) : ~err[j].tagged /\ err[j].msg = err[i].msg

\* the number of links the walk appends: all of them, or those above the
\* first generic link that repeats a message
LinksWalked(err) ==
  IF \E i \in 1..Len(err) : RepeatsGeneric(err, i)
    THEN (CHOOSE i \in 1..Len(err) :
            RepeatsGeneric(err, i) /\ \A j \in 1..(i - 1) : ~RepeatsGeneric(err, j)) - 1
    ELSE Len(err)

====
